---- MODULE Spec2Model ----
(***************************************************************************)
(* A model of notion4ever's structuring pipeline                           *)
(* (src/notion4ever/structuring.py, src/notion4ever/markdown_parser.py).   *)
(*                                                                         *)
(* Strings are sequences of tokens.  A token is a one-element string that  *)
(* stands for one character ("a", "_", " ", "/", "?", "\n" ...) or for a   *)
(* fixed piece of text that no operation of the program splits             *)
(* ("S" = config["site_url"], "R" = "https://remote.host/", "* " = the     *)
(* bullet marker ...).  Python's None is the one-token string <<"None">>.  *)
(* Page ids are the positions 1..n of the keys of raw_notion in insertion  *)
(* order; the parent None is the id 0.                                     *)
(***************************************************************************)
EXTENDS Integers, Sequences, FiniteSets, TLC

VARIABLES
    raw_notion,         \* the raw mapping: sequence of raw pages, key = position
    config,             \* [build_locally, download_files]
    pages,              \* structured_notion["pages"], key = position
    urls,               \* structured_notion["urls"]
    sorted_id_by_year,  \* structured_notion["sorted_id_by_year"]: seq of [year, ids]
    disk,               \* the local files that exist under config["output_dir"]
    pc,                 \* the stage of structurize_notion_content that runs next
    i_page,             \* loop position: index of the page in work
    i_file,             \* loop position: index of the file in work
    stack,              \* generate_urls: the calls still to make, in call order
    log,                \* what was logged, raised or caught, in order
    md_in,              \* grouping: the argument of the first call
    md_out,             \* grouping: results of the calls made so far
    richtext_list,      \* richtext_convertor: its argument
    outcome_sentence,   \* richtext_convertor: what it returned
    notion,             \* block_parser: the result lists the API has for the block
    parent_block,       \* block_parser: block, [has_children, children]
    listed,             \* block_parser: blocks, the response taken last
    start_cursor        \* block_parser: the cursor

\* the state of block_parser
parser == <<notion, parent_block, listed, start_cursor>>

vars == <<raw_notion, config, pages, urls, sorted_id_by_year, disk, pc, i_page,
          i_file, stack, log, md_in, md_out, richtext_list, outcome_sentence,
          parser>>

-----------------------------------------------------------------------------
(* Bounds of the model *)

\* number of keys of raw_notion in the hierarchy specification
NumPages == 4
\* number of keys of raw_notion in the ordering specification
NumDated == 3
\* instants per calendar year (the resolution of a date)
TicksPerYear == 2

-----------------------------------------------------------------------------
(* Python values *)

NoneV == <<"None">>

\* block_parser does not run
NoParser ==
    /\ notion = <<>>
    /\ parent_block = [has_children |-> FALSE, children |-> NoneV]
    /\ listed = NoneV
    /\ start_cursor = NoneV
NoUrl == <<"<no url>">>
NL == "\n"

Range(s) == {s[k] : k \in 1..Len(s)}

RECURSIVE Concat(_)
\* "".join(list)
Concat(ss) == IF Len(ss) = 0 THEN <<>> ELSE Head(ss) \o Concat(Tail(ss))

StartsWith(s, p) == Len(s) >= Len(p) /\ SubSeq(s, 1, Len(p)) = p

\* old in s
Contains(s, old) ==
    \E k \in 0..(Len(s) - Len(old)) : SubSeq(s, k + 1, k + Len(old)) = old

RECURSIVE StrReplace(_, _, _)
\* s.replace(old, new), old non-empty: every non-overlapping occurrence,
\* scanned from the left
StrReplace(s, old, new) ==
    IF Len(s) < Len(old) THEN s
    ELSE IF SubSeq(s, 1, Len(old)) = old
         THEN new \o StrReplace(SubSeq(s, Len(old) + 1, Len(s)), old, new)
         ELSE <<Head(s)>> \o StrReplace(Tail(s), old, new)

-----------------------------------------------------------------------------
(* Dates.  A date string of the raw data is [year, tick, aware, off]: local *)
(* calendar time (year, tick within the year), and, when the string carries *)
(* a UTC offset (aware), the offset in ticks.                               *)

NoDate == [year |-> 0, tick |-> 0, aware |-> FALSE, off |-> 0]

\* dt_parser.isoparse(v['date']): the instant a datetime is compared by
Instant(d) == d.year * TicksPerYear + d.tick - d.off

\* datetime < datetime raises TypeError between a naive and an aware value
Comparable(d, e) == d.aware = e.aware

-----------------------------------------------------------------------------
(* raw_notion: one raw page is                                              *)
(*   [object, parent |-> [type, id], title, cover, icon |-> [kind, value],  *)
(*    blocks, properties]                                                   *)
(* title is what the kind-specific lookup of parse_headers finds (NoneV for *)
(* an empty title list); properties is the property bag in source order,    *)
(* each [name, type, value].                                                *)

RECURSIVE PropNamed(_, _)
\* page["properties"][name], or NoneV when the key is absent
PropNamed(props, name) ==
    IF Len(props) = 0 THEN [name |-> name, type |-> "absent", value |-> NoneV]
    ELSE IF Head(props).name = name THEN Head(props)
         ELSE PropNamed(Tail(props), name)

PageType(page) ==
    IF page.parent.type = "database_id" THEN "db_entry" ELSE page.object

\* lines 138-145: the start of the "Date" property of a db_entry
HeaderDate(page) ==
    IF PageType(page) = "db_entry"
       /\ PropNamed(page.properties, "Date").type = "date"
    THEN PropNamed(page.properties, "Date").value.start
    ELSE NoDate

\* lines 148-156: raises KeyError when the parent descriptor has no page_id
ParentKeyError(page) ==
    /\ page.parent.type # "workspace"
    /\ PageType(page) \in {"page", "database"}
    /\ page.parent.type # "page_id"

\* a parent that is not a key of the mapping taken as no parent
HeaderParent_lenient(page) ==
    IF page.parent.type = "workspace"
       \/ page.parent.id \notin 1..Len(raw_notion)
    THEN 0 ELSE page.parent.id

HeaderParent(page) ==
    IF page.parent.type = "workspace" THEN 0 ELSE page.parent.id

\* lines 165-187: the file urls of the header, in discovery order
HeaderFiles(page) ==
    (IF page.cover # NoneV THEN <<page.cover>> ELSE <<>>)
    \o (IF page.icon.kind = "file" THEN <<page.icon.value>> ELSE <<>>)

\* the record parse_headers builds for one raw page
Header(page) ==
    [type          |-> PageType(page),
     title         |-> page.title,
     date          |-> HeaderDate(page),
     parent        |-> HeaderParent(page),
     children      |-> <<>>,
     cover         |-> page.cover,
     icon          |-> IF page.icon.kind = "file" THEN page.icon.value ELSE NoneV,
     emoji         |-> IF page.icon.kind = "emoji" THEN page.icon.value ELSE NoneV,
     files         |-> HeaderFiles(page),
     db_list       |-> FALSE,
     family_line   |-> <<>>,
     url           |-> NoUrl,
     md_content    |-> <<>>,
     properties_md |-> <<>>]

\* an entry of the log: what happened, and at which file of which page
Event(event, page_id, k, url) ==
    [event |-> event, page |-> page_id, file |-> k, url |-> url]

\* an exception that no handler takes ends the build
Abort(exc) ==
    /\ pc' = "aborted"
    /\ log' = Append(log, Event(exc, 0, 0, <<>>))

\* one iteration of the loop of parse_headers (lines 103-187)
parse_headers ==
    /\ pc = "parse_headers"
    /\ i_page <= Len(raw_notion)
    /\ LET page == raw_notion[i_page]
           parent_id == HeaderParent(page)
       IN  IF ParentKeyError(page) \/ (parent_id # 0 /\ parent_id > Len(pages) + 1)
           THEN /\ Abort("KeyError")
                /\ UNCHANGED <<pages, i_page>>
           ELSE /\ pages' =
                     LET added == Append(pages, Header(page))
                     IN  IF parent_id = 0 THEN added
                         ELSE [added EXCEPT ![parent_id].children = Append(@, i_page)]
                /\ i_page' = i_page + 1
                /\ pc' = IF i_page = Len(raw_notion) THEN "find_lists_in_dbs" ELSE pc
                /\ UNCHANGED log
    /\ UNCHANGED <<parser, raw_notion, config, urls, sorted_id_by_year, disk, i_file,
                   stack, md_in, md_out, richtext_list, outcome_sentence>>

\* a rule that takes a database as a list when none of its children has a
\* cover
find_lists_in_dbs_no_cover_at_all ==
    /\ pc = "find_lists_in_dbs"
    /\ pages' = [p \in 1..Len(pages) |->
                   IF pages[p].type = "database"
                      /\ \A k \in 1..Len(pages[p].children) :
                             pages[pages[p].children[k]].cover = NoneV
                   THEN [pages[p] EXCEPT !.db_list = TRUE]
                   ELSE pages[p]]
    /\ pc' = "parse_family_lines"
    /\ UNCHANGED <<parser, raw_notion, config, urls, sorted_id_by_year, disk, i_page,
                   i_file, stack, log, md_in, md_out, richtext_list,
                   outcome_sentence>>

\* lines 191-202
find_lists_in_dbs ==
    /\ pc = "find_lists_in_dbs"
    /\ pages' = [p \in 1..Len(pages) |->
                   IF pages[p].type = "database"
                      /\ \E k \in 1..Len(pages[p].children) :
                             pages[pages[p].children[k]].cover = NoneV
                   THEN [pages[p] EXCEPT !.db_list = TRUE]
                   ELSE pages[p]]
    /\ pc' = "parse_family_lines"
    /\ UNCHANGED <<parser, raw_notion, config, urls, sorted_id_by_year, disk, i_page,
                   i_file, stack, log, md_in, md_out, richtext_list,
                   outcome_sentence>>

RECURSIVE parse_family_line(_, _)
\* lines 204-211: the ancestors of page_id, root first
parse_family_line(page_id, ps) ==
    IF ps[page_id].parent # 0
    THEN parse_family_line(ps[page_id].parent, ps) \o <<ps[page_id].parent>>
    ELSE <<>>

\* lines 213-215, and the first call of generate_urls (line 497)
parse_family_lines ==
    /\ pc = "parse_family_lines"
    /\ pages' = [p \in 1..Len(pages) |->
                   [pages[p] EXCEPT !.family_line = parse_family_line(p, pages)]]
    /\ pc' = "generate_urls"
    /\ stack' = <<1>>
    /\ UNCHANGED <<parser, raw_notion, config, urls, sorted_id_by_year, disk, i_page,
                   i_file, log, md_in, md_out, richtext_list, outcome_sentence>>

-----------------------------------------------------------------------------
(* generate_urls *)

RECURSIVE Slug(_)
\* title.replace(" ", "_")
Slug(title) ==
    IF Len(title) = 0 THEN <<>>
    ELSE <<IF Head(title) = " " THEN "_" ELSE Head(title)>> \o Slug(Tail(title))

\* urllib.parse.urljoin(base, name) for a base that ends in "/" and holds no
\* empty path segment before it, and a name that is a relative path without
\* dot segments, query or fragment: the name is put after the base
urljoin(base, name) == base \o name

RECURSIVE LastSlash(_)
\* position of the last "/" of a path, 0 when there is none
LastSlash(path) ==
    IF Len(path) = 0 THEN 0
    ELSE IF path[Len(path)] = "/" THEN Len(path)
         ELSE LastSlash(SubSeq(path, 1, Len(path) - 1))

\* Path(path).parent
PathParent(path) == SubSeq(path, 1, LastSlash(path) - 1)

\* Path(path).name
PathName(path) == SubSeq(path, LastSlash(path) + 1, Len(path))

\* line 256 / lines 245-247: the candidate url of a page named f_name
Candidate(parent_url, f_name) ==
    IF config.build_locally
    THEN PathParent(parent_url) \o <<"/">> \o f_name \o <<"/">> \o f_name
         \o <<".html">>
    ELSE urljoin(parent_url \o <<"/">>, f_name)

\* the name taken as it is, without the test of line 243 / 257
FreeName_once(parent_url, f_name, taken) == f_name

RECURSIVE FreeName_twice(_, _, _)
\* a loop that appends two characters at every turn
FreeName_twice(parent_url, f_name, taken) ==
    IF Candidate(parent_url, f_name) \in Range(taken)
    THEN FreeName_twice(parent_url, f_name \o <<"_", "_">>, taken)
    ELSE f_name

RECURSIVE FreeName(_, _, _)
\* lines 243-247 and 257-259: append "_" while the candidate is in urls
FreeName(parent_url, f_name, taken) ==
    IF Candidate(parent_url, f_name) \in Range(taken)
    THEN FreeName(parent_url, f_name \o <<"_">>, taken)
    ELSE f_name

\* the url one call of generate_urls gives page_id (lines 219-261)
f_url(page_id) ==
    IF page_id = 1
    THEN IF config.build_locally
         THEN <<"O", "/">> \o Slug(pages[page_id].title) \o <<".html">>
         ELSE <<"S">>
    ELSE LET parent_url == pages[pages[page_id].parent].url
         IN  Candidate(parent_url,
                       FreeName(parent_url, Slug(pages[page_id].title), urls))

\* no call needs the title
TitleNeeded_never(page_id) == FALSE

\* title.replace raises AttributeError on None
TitleNeeded(page_id) == page_id # 1 \/ config.build_locally

\* the calls for the children put after the calls that wait, so that the
\* pages are taken level by level
generate_urls_by_level ==
    /\ pc = "generate_urls"
    /\ Len(stack) > 0
    /\ LET page_id == Head(stack)
       IN  IF TitleNeeded(page_id) /\ pages[page_id].title = NoneV
           THEN /\ Abort("AttributeError")
                /\ UNCHANGED <<pages, urls, stack>>
           ELSE /\ pages' = [pages EXCEPT ![page_id].url = f_url(page_id)]
                /\ urls' = Append(urls, f_url(page_id))
                /\ stack' = Tail(stack) \o pages[page_id].children
                /\ pc' = IF Len(stack') = 0 THEN "parse_markdown" ELSE pc
                /\ UNCHANGED log
    /\ UNCHANGED <<parser, raw_notion, config, sorted_id_by_year, disk, i_page, i_file,
                   md_in, md_out, richtext_list, outcome_sentence>>

\* one call of generate_urls without its recursive calls, which are put on
\* the stack in the order of lines 263-264
generate_urls ==
    /\ pc = "generate_urls"
    /\ Len(stack) > 0
    /\ LET page_id == Head(stack)
       IN  IF TitleNeeded(page_id) /\ pages[page_id].title = NoneV
           THEN /\ Abort("AttributeError")
                /\ UNCHANGED <<pages, urls, stack>>
           ELSE /\ pages' = [pages EXCEPT ![page_id].url = f_url(page_id)]
                /\ urls' = Append(urls, f_url(page_id))
                /\ stack' = pages[page_id].children \o Tail(stack)
                /\ pc' = IF Len(stack') = 0 THEN "parse_markdown" ELSE pc
                /\ UNCHANGED log
    /\ UNCHANGED <<parser, raw_notion, config, sorted_id_by_year, disk, i_page, i_file,
                   md_in, md_out, richtext_list, outcome_sentence>>

-----------------------------------------------------------------------------
(* markdown_parser.grouping *)

RECURSIVE FirstNL(_, _)
\* position of the first "\n" of s at or after k, 0 when there is none
FirstNL(s, k) ==
    IF k > Len(s) THEN 0 ELSE IF s[k] = NL THEN k ELSE FirstNL(s, k + 1)

RECURSIVE splitlines(_)
\* str.splitlines(): the lines between "\n", no empty last line after a
\* final "\n"
splitlines(s) ==
    IF Len(s) = 0 THEN <<>>
    ELSE LET k == FirstNL(s, 1)
         IN  IF k = 0 THEN <<s>>
             ELSE <<SubSeq(s, 1, k - 1)>> \o splitlines(SubSeq(s, k + 1, Len(s)))

RECURSIVE join(_, _)
\* sep.join(list)
join(sep, ss) ==
    IF Len(ss) = 0 THEN <<>>
    ELSE IF Len(ss) = 1 THEN ss[1]
         ELSE ss[1] \o sep \o join(sep, Tail(ss))

RECURSIVE lstrip(_)
\* line.lstrip('\t').lstrip()
lstrip(line) ==
    IF Len(line) > 0 /\ Head(line) \in {" ", "\t"} THEN lstrip(Tail(line))
    ELSE line

\* lines 349-356
line_type(line) ==
    LET norm_line == lstrip(line)
    IN  IF StartsWith(norm_line, <<"-", " ", "[", " ", "]">>)
           \/ StartsWith(norm_line, <<"-", " ", "[", "x", "]">>)
        THEN "checkbox"
        ELSE IF StartsWith(norm_line, <<"*", " ">>) THEN "bullet"
        ELSE IF StartsWith(norm_line, <<"1", ".", " ">>) THEN "numbered"
        ELSE ""

RECURSIVE page_md_fixed_keep_blank(_, _)
\* a loop that does not skip the empty lines after a list item
page_md_fixed_keep_blank(lines, prev_line_type) ==
    IF Len(lines) = 0 THEN <<>>
    ELSE LET line == Head(lines)
         IN  (IF line_type(line) # prev_line_type THEN << <<>> >> ELSE <<>>)
             \o <<line>>
             \o page_md_fixed_keep_blank(Tail(lines), line_type(line))

RECURSIVE page_md_fixed(_, _)
\* the loop of lines 348-366 over the lines left, prev_line_type given
page_md_fixed(lines, prev_line_type) ==
    IF Len(lines) = 0 THEN <<>>
    ELSE LET line == Head(lines)
         IN  IF prev_line_type # "" /\ line = <<>>
             THEN page_md_fixed(Tail(lines), prev_line_type)
             ELSE (IF line_type(line) # prev_line_type THEN << <<>> >> ELSE <<>>)
                  \o <<line>>
                  \o page_md_fixed(Tail(lines), line_type(line))

\* lines 345-367
grouping(page_md) == join(<<NL>>, page_md_fixed(splitlines(page_md), ""))

-----------------------------------------------------------------------------
(* markdown_parser: rich text.  A span is                                   *)
(*   [type, plain_text, href, text |-> [content, link], annotations,        *)
(*    color, mention]                                                       *)
(* annotations is the sequence of [key, on] pairs of richtext["annotations"]*)
(* in the order the input declares them; color is annotations["color"];     *)
(* mention is richtext["mention"]["type"].                                   *)

\* line 251-270
bold(content) == <<"*", "*">> \o content \o <<"*", "*">>
italic(content) == <<"*">> \o content \o <<"*">>
strikethrough(content) == <<"~", "~">> \o content \o <<"~", "~">>
underline(content) == <<"<u>">> \o content \o <<"</u>">>
\* code is the backquote wrapper; "bq" is the backquote character
code(content) == <<"bq">> \o content \o <<"bq">>
color(content, c) == <<"<span style='color:", c, "'>">> \o content \o <<"</span>">>
inline_equation(content) == <<"$", " ">> \o content \o <<" ", "$">>

\* lines 244-248
text_link(item) == <<"[">> \o item.content \o <<"]", "(">> \o item.link \o <<")">>

\* the keys of annotation_map in its own order (lines 272-278)
annotation_map == <<"bold", "italic", "strikethrough", "underline", "code">>

\* annotation_map[key](content)
transfer(key, content) ==
    CASE key = "bold" -> bold(content)
      [] key = "italic" -> italic(content)
      [] key = "strikethrough" -> strikethrough(content)
      [] key = "underline" -> underline(content)
      [] key = "code" -> code(content)

\* richtext["annotations"][key]
Annotation(richtext, key) ==
    \E k \in 1..Len(richtext.annotations) :
        richtext.annotations[k].key = key /\ richtext.annotations[k].on

RECURSIVE Annotate_declared(_, _, _)
\* the loop taken over the keys of richtext["annotations"] in the order the
\* span declares them
Annotate_declared(richtext, keys, outcome_word) ==
    IF Len(keys) = 0 THEN outcome_word
    ELSE LET a == richtext.annotations[Len(richtext.annotations) - Len(keys) + 1]
         IN  Annotate_declared(richtext, Tail(keys),
                               IF a.on THEN transfer(a.key, outcome_word)
                               ELSE outcome_word)

RECURSIVE Annotate(_, _, _)
\* lines 331-333: the loop over the keys left of annotation_map
Annotate(richtext, keys, outcome_word) ==
    IF Len(keys) = 0 THEN outcome_word
    ELSE Annotate(richtext, Tail(keys),
                  IF Annotation(richtext, Head(keys))
                  THEN transfer(Head(keys), outcome_word)
                  ELSE outcome_word)

\* lines 281-307
_mention_link(content, url) ==
    <<"(", "[">> \o content \o <<"]", "(">> \o url \o <<"]", ")">>

mention_content(payload) ==
    IF payload.href # NoneV /\ payload.plain_text = <<"Untitled">>
    THEN payload.href ELSE payload.plain_text

\* mention_map[mention_type](mention_information(richtext)); a page or
\* database mention without href has no information['url'] (KeyError)
mention(payload) ==
    CASE payload.mention \in {"user", "date"} ->
             <<"(">> \o mention_content(payload) \o <<")">>
      [] payload.mention \in {"page", "database"} ->
             _mention_link(mention_content(payload), payload.href)
      [] OTHER -> <<>>

MentionKeyError(payload) ==
    /\ payload.type = "mention"
    /\ payload.mention \in {"page", "database"}
    /\ payload.href = NoneV

\* lines 316-336
richtext_word_converter(richtext) ==
    IF richtext.type = "equation" THEN inline_equation(richtext.plain_text)
    ELSE IF richtext.type = "mention" THEN mention(richtext)
    ELSE LET linked == IF richtext.href # NoneV THEN text_link(richtext.text)
                       ELSE richtext.plain_text
             annotated == Annotate(richtext, annotation_map, linked)
         IN  IF richtext.color # "default" THEN color(annotated, richtext.color)
             ELSE annotated

RECURSIVE richtext_convertor_prepend(_)
\* an accumulator that puts every word before the words taken so far
richtext_convertor_prepend(list) ==
    IF Len(list) = 0 THEN <<>>
    ELSE richtext_word_converter(list[Len(list)])
         \o richtext_convertor_prepend(SubSeq(list, 1, Len(list) - 1))

RECURSIVE richtext_convertor(_)
\* lines 339-343
richtext_convertor(list) ==
    IF Len(list) = 0 THEN <<>>
    ELSE richtext_convertor(SubSeq(list, 1, Len(list) - 1))
         \o richtext_word_converter(list[Len(list)])

-----------------------------------------------------------------------------
(* markdown_parser: blocks.  A block is                                     *)
(*   [type, id, has_children, children, text, checked, url, external, file, *)
(*    caption, cells, language]                                             *)
(* text and caption are rich text lists; url, external and file are the     *)
(* urls of the keys "url", "external" and "file" of the payload, NoneV for  *)
(* a key the payload does not have; cells are the rich text lists of a      *)
(* table_row.                                                               *)

RECURSIVE FirstOf(_, _, _)
\* position of the first token c of s at or after k, 0 when there is none
FirstOf(s, c, k) ==
    IF k > Len(s) THEN 0 ELSE IF s[k] = c THEN k ELSE FirstOf(s, c, k + 1)

\* urlparse(file_url).path: the url without its query
UrlPath(file_url) ==
    IF FirstOf(file_url, "?", 1) = 0 THEN file_url
    ELSE SubSeq(file_url, 1, FirstOf(file_url, "?", 1) - 1)

\* line 415: urljoin(file_url, urlparse(file_url).path); a url without a
\* scheme is a relative path, which is joined to its own directory
clean_url(file_url) ==
    IF Head(file_url) = "R" THEN UrlPath(file_url)
    ELSE SubSeq(file_url, 1, LastSlash(UrlPath(file_url))) \o UrlPath(file_url)

\* the kinds of block_type_map (lines 113-134) that the model draws
block_type_map ==
    {"paragraph", "bulleted_list_item", "numbered_list_item", "to_do",
     "image", "embed", "file", "bookmark", "video", "code"}

\* information['url'] (lines 155, 162, 170): the key taken last wins
information_url(block) ==
    IF block.file # NoneV THEN block.file
    ELSE IF block.external # NoneV THEN block.external
    ELSE block.url

\* a collection that takes every payload as one to download
dont_download_never(block) == FALSE

\* lines 201-202: "dont_download" is put into the payload
dont_download(block) == block.type \in {"embed", "video"}

\* lines 155-172: the urls information_collector appends to files for the
\* payload of one block, in the order of the keys it looks at
information_files(block) ==
    IF dont_download(block) THEN <<>>
    ELSE (IF block.url # NoneV THEN <<block.url>> ELSE <<>>)
         \o (IF block.external # NoneV THEN <<block.external>> ELSE <<>>)
         \o (IF block.file # NoneV THEN <<block.file>> ELSE <<>>)

ReferenceTypes == {"child_page", "child_database", "db_entry"}

\* block_type_map[block_type](information)
formatter(block) ==
    LET text == richtext_convertor(block.text)
    IN  CASE block.type = "paragraph" -> text
          [] block.type = "bulleted_list_item" -> <<"*", " ">> \o text
          [] block.type = "numbered_list_item" -> <<"1", ".", " ">> \o text
          [] block.type = "to_do" ->
                 <<"-", " ", "[", IF block.checked THEN "x" ELSE " ", "]", " ">>
                 \o text
          [] block.type \in {"image", "bookmark"} ->
                 <<"!", "[">> \o richtext_convertor(block.caption)
                 \o <<"]", "(">> \o information_url(block) \o <<")">>
          [] block.type \in {"embed", "video"} ->
                 <<"<p><div class=\"res_emb_block\">", NL,
                   "<iframe width=\"640\" height=\"480\" src=\"">>
                 \o information_url(block)
                 \o <<"\" frameborder=\"0\" allowfullscreen></iframe>", NL,
                      "</div></p>">>
          [] block.type = "code" ->
                 <<"bq", "bq", "bq">>
                 \o StrReplace(block.language, <<" ">>, <<"_">>) \o <<NL>>
                 \o text \o <<NL, "bq", "bq", "bq">>
          [] block.type = "file" ->
                 <<"[", "clip", " ">> \o PathName(clean_url(information_url(block)))
                 \o <<"]", "(">> \o information_url(block) \o <<")">>

\* lines 187-198: the link to a nested page, database or entry
reference(block, ps) ==
    LET target == ps[block.id]
        link == target.title \o <<"]", "(">> \o target.url \o <<")", NL, NL>>
    IN  IF target.emoji # NoneV THEN <<"[">> \o target.emoji \o <<" ">> \o link
        ELSE IF target.icon # NoneV
             THEN <<"[", "<span class=\"miniicon\"> <img src=\"">> \o target.icon
                  \o <<"\"></span> ">> \o link
             ELSE <<"[">> \o link

RECURSIVE rstrip(_, _)
\* s.rstrip(chars)
rstrip(s, chars) ==
    IF Len(s) > 0 /\ s[Len(s)] \in chars
    THEN rstrip(SubSeq(s, 1, Len(s) - 1), chars) ELSE s

tabs(depth) == [k \in 1..depth |-> "\t"]

\* lines 95-102: the markdown of every cell of a row
table_row(block) ==
    [k \in 1..Len(block.cells) |-> richtext_convertor(block.cells[k])]

\* " | " + " | ".join(value) + " | " + "\n" (lines 228-231)
pipe_line(value) ==
    <<" ", "|", " ">> \o join(<<" ", "|", " ">>, value) \o <<" ", "|", " ">>
    \o <<NL>>

\* lines 226-232: the first row, the row of dashes, the rows after the first
\* and an empty line; table_list has a row at least
table_md(table_list) ==
    pipe_line(table_list[1])
    \o pipe_line([k \in 1..Len(table_list[1]) |-> <<"-", "-", "-", "-">>])
    \o Concat([j \in 1..(Len(table_list) - 1) |-> pipe_line(table_list[j + 1])])
    \o <<NL>>

\* a rendering that leaves a block of a kind without formatter out
not_supported_silent(block_type) == <<>>

\* line 208: the placeholder of a kind that is no key of block_type_map
not_supported(block_type) == <<"[", block_type, " is not supported]", NL, NL>>

RECURSIVE block_convertor(_, _, _)
RECURSIVE children_md(_, _, _)
\* lines 235-239: the nested blocks, each after depth tabs
children_md(blocks, depth, ps) ==
    IF Len(blocks) = 0 THEN <<>>
    ELSE tabs(depth) \o block_convertor(Head(blocks), depth, ps)
         \o children_md(Tail(blocks), depth, ps)

\* lines 180-241; "table" is no key of block_type_map, and the rows of a
\* table take the place of what was rendered for it (line 228) when there
\* is a row
block_convertor(block, depth, ps) ==
    IF block.type = "paragraph" /\ ~block.has_children /\ Len(block.text) = 0
    THEN <<"<br/>", NL, NL>>
    ELSE IF block.type \in ReferenceTypes THEN reference(block, ps)
    ELSE LET rendered ==
                 IF block.type \in block_type_map
                 THEN formatter(block) \o <<NL, NL>>
                 ELSE not_supported(block.type)
             \* lines 210-212
             outcome_block ==
                 IF block.type = "code"
                 THEN StrReplace(rstrip(rendered, {NL}), <<NL>>,
                                 <<NL>> \o tabs(depth))
                      \o <<NL, NL>>
                 ELSE rendered
         IN  IF ~block.has_children THEN outcome_block
             ELSE IF block.type = "table"
                  THEN IF Len(block.children) = 0 THEN outcome_block \o <<NL>>
                       ELSE table_md([j \in 1..Len(block.children) |->
                                        table_row(block.children[j])])
                  ELSE outcome_block
                       \o children_md(block.children, depth + 1, ps)

RECURSIVE block_files(_)
RECURSIVE blocks_files(_)
\* the urls information_collector appends to files while the blocks are
\* converted (lines 155-172, 201-206), in the order of the calls
blocks_files(blocks) ==
    IF Len(blocks) = 0 THEN <<>>
    ELSE block_files(Head(blocks)) \o blocks_files(Tail(blocks))

block_files(block) ==
    IF block.type = "paragraph" /\ ~block.has_children /\ Len(block.text) = 0
    THEN <<>>
    ELSE IF block.type \in ReferenceTypes THEN <<>>
    ELSE (IF block.type \in block_type_map THEN information_files(block)
          ELSE <<>>)
         \o (IF block.has_children THEN blocks_files(block.children) ELSE <<>>)

RECURSIVE blocks_convertor(_, _)
\* lines 136-143
blocks_convertor(blocks, ps) ==
    IF Len(blocks) = 0 THEN <<>>
    ELSE block_convertor(Head(blocks), 0, ps) \o blocks_convertor(Tail(blocks), ps)

\* lines 371-376: the md_content of one page
page_md(page_id, ps) ==
    StrReplace(grouping(blocks_convertor(raw_notion[page_id].blocks, ps)),
               <<NL, NL, NL>>, <<NL, NL>>)

\* lines 369-376
parse_markdown ==
    /\ pc = "parse_markdown"
    /\ pages' = [p \in 1..Len(pages) |->
                   [pages[p] EXCEPT
                      !.md_content = page_md(p, pages),
                      !.files = @ \o blocks_files(raw_notion[p].blocks)]]
    /\ pc' = "parse_db_entry_properties"
    /\ UNCHANGED <<parser, raw_notion, config, urls, sorted_id_by_year, disk, i_page,
                   i_file, stack, log, md_in, md_out, richtext_list,
                   outcome_sentence>>

-----------------------------------------------------------------------------
(* parse_db_entry_properties *)

\* the property types of properties_map (lines 372-391) that the model draws
properties_map == {"date", "files"}

\* dt_parser.isoparse(dt).strftime("%d %b, %Y"): the calendar day, without
\* the offset
strftime(d) == <<ToString(d.tick), ",", " ", ToString(d.year)>>

\* lines 293-301
p_date(property) ==
    IF property.value.start = NoDate THEN <<>>
    ELSE strftime(property.value.start)
         \o (IF property.value.end = NoDate THEN <<>>
             ELSE <<" ", "-", " ">> \o strftime(property.value.end))

RECURSIVE FilesMd(_)
FilesMd(files) ==
    IF Len(files) = 0 THEN <<>>
    ELSE <<"[", "clip", "]", "(">> \o Head(files) \o <<")", ";", " ">>
         \o FilesMd(Tail(files))

\* lines 309-313
p_files(property) == rstrip(FilesMd(property.value), {";", " "})

\* lines 400-409: the rendering of one property
property_md(property) ==
    IF property.type = "date" THEN p_date(property)
    ELSE IF property.type = "files" THEN p_files(property)
    ELSE <<>>

RECURSIVE properties_md_handled(_)
\* a rendering that leaves out the properties whose type has no handler
properties_md_handled(props) ==
    IF Len(props) = 0 THEN <<>>
    ELSE (IF Head(props).type \in properties_map
          THEN <<[name |-> Head(props).name, value |-> property_md(Head(props))]>>
          ELSE <<>>)
         \o properties_md_handled(Tail(props))

RECURSIVE properties_md(_)
\* lines 397-409: properties_md of an entry, in the order of its properties
properties_md(props) ==
    IF Len(props) = 0 THEN <<>>
    ELSE (IF Head(props).type = "title" THEN <<>>
          ELSE <<[name |-> Head(props).name, value |-> property_md(Head(props))]>>)
         \o properties_md(Tail(props))

RECURSIVE properties_files(_)
\* lines 402-404: the urls of the files properties, in order
properties_files(props) ==
    IF Len(props) = 0 THEN <<>>
    ELSE (IF Head(props).type = "files" THEN Head(props).value ELSE <<>>)
         \o properties_files(Tail(props))

RECURSIVE NextWithFiles(_, _)
\* the first page at or after p whose files list is not empty, 0 when none
NextWithFiles(ps, p) ==
    IF p > Len(ps) THEN 0
    ELSE IF Len(ps[p].files) > 0 THEN p ELSE NextWithFiles(ps, p + 1)

\* lines 371-409, and the test of line 506
parse_db_entry_properties ==
    /\ pc = "parse_db_entry_properties"
    /\ pages' = [p \in 1..Len(pages) |->
                   IF pages[p].type = "db_entry"
                   THEN [pages[p] EXCEPT
                           !.properties_md = properties_md(raw_notion[p].properties),
                           !.files = @ \o properties_files(raw_notion[p].properties)]
                   ELSE pages[p]]
    /\ IF config.download_files /\ NextWithFiles(pages', 1) # 0
       THEN /\ pc' = "download_and_replace_paths"
            /\ i_page' = NextWithFiles(pages', 1)
            /\ i_file' = 1
       ELSE /\ pc' = "sorting_db_entries"
            /\ UNCHANGED <<i_page, i_file>>
    /\ UNCHANGED <<parser, raw_notion, config, urls, sorted_id_by_year, disk, stack,
                   log, md_in, md_out, richtext_list, outcome_sentence>>

-----------------------------------------------------------------------------
(* download_and_replace_paths.  A remote url is <<"R", "/", ...>> with "R"  *)
(* its scheme and host; a url without "R" has no scheme.                    *)

\* urllib.parse.unquote: "%20" is the quoted space
unquote(s) == [k \in 1..Len(s) |-> IF s[k] = "%20" THEN " " ELSE s[k]]

filename(file_url) == unquote(PathName(clean_url(file_url)))

\* lines 418-420 and 424
new_url(page, file_url) ==
    IF config.build_locally
    THEN urljoin(PathParent(page.url) \o <<"/">>, filename(file_url))
    ELSE urljoin(page.url \o <<"/">>, filename(file_url))

\* lines 421 and 426-427: the place of the file under config["output_dir"];
\* site_url is <<"S">> and the resolved output_dir is <<"O">>
local_file_location(page, file_url) ==
    LET u == new_url(page, file_url)
        rest == IF Len(u) > 0 /\ Head(u) \in {"S", "O"} THEN Tail(u) ELSE u
    IN  IF Len(rest) > 0 /\ Head(rest) = "/" THEN Tail(rest) ELSE rest

\* request.urlretrieve raises ValueError for a url without a scheme
WellFormed(file_url) == Head(file_url) = "R"

RECURSIVE ReplaceInProperties(_, _, _)
\* lines 456-459
ReplaceInProperties(props, old, new) ==
    IF Len(props) = 0 THEN <<>>
    ELSE <<IF Contains(Head(props).value, old)
           THEN [Head(props) EXCEPT !.value = StrReplace(@, old, new)]
           ELSE Head(props)>>
         \o ReplaceInProperties(Tail(props), old, new)

\* a rewrite that also puts the local path in the place of the url of the
\* page
Rewrite_url(page, k, old, new) ==
    [page EXCEPT
       !.url = new,
       !.files[k] = new,
       !.md_content = StrReplace(@, old, new),
       !.icon = IF @ = old THEN new ELSE @,
       !.cover = IF @ = old THEN new ELSE @,
       !.properties_md = IF page.type = "db_entry"
                         THEN ReplaceInProperties(@, old, new) ELSE @]

\* lines 442-459: the rewrite of one file of one page
Rewrite(page, k, old, new) ==
    [page EXCEPT
       !.files[k] = new,
       !.md_content = StrReplace(@, old, new),
       !.icon = IF @ = old THEN new ELSE @,
       !.cover = IF @ = old THEN new ELSE @,
       !.properties_md = IF page.type = "db_entry"
                         THEN ReplaceInProperties(@, old, new) ELSE @]

file_url == pages[i_page].files[i_file]

Downloading ==
    /\ pc = "download_and_replace_paths"
    /\ i_page \in 1..Len(pages)
    /\ i_file \in 1..Len(pages[i_page].files)

\* the next iteration of the loops of lines 412-413, or the end of them
NextFile ==
    IF i_file < Len(pages[i_page].files)
    THEN /\ i_file' = i_file + 1
         /\ UNCHANGED <<i_page, pc>>
    ELSE IF NextWithFiles(pages, i_page + 1) # 0
         THEN /\ i_page' = NextWithFiles(pages, i_page + 1)
              /\ i_file' = 1
              /\ UNCHANGED pc
         ELSE /\ pc' = "sorting_db_entries"
              /\ UNCHANGED <<i_page, i_file>>

RewriteFile ==
    pages' = [pages EXCEPT ![i_page] =
                Rewrite(@, i_file, file_url, new_url(pages[i_page], file_url))]

\* an iteration for a file that is there already which goes on to the next
\* file without the rewrite of lines 442-459
download_exists_skips ==
    /\ Downloading
    /\ local_file_location(pages[i_page], file_url) \in disk
    /\ log' = Append(log, Event("already exists", i_page, i_file, file_url))
    /\ NextFile
    /\ UNCHANGED <<parser, raw_notion, config, pages, urls, sorted_id_by_year, disk,
                   stack, md_in, md_out, richtext_list, outcome_sentence>>

\* one iteration (lines 413-459): the file is there already (line 431)
download_exists ==
    /\ Downloading
    /\ local_file_location(pages[i_page], file_url) \in disk
    /\ log' = Append(log, Event("already exists", i_page, i_file, file_url))
    /\ RewriteFile
    /\ NextFile
    /\ UNCHANGED <<parser, raw_notion, config, urls, sorted_id_by_year, disk, stack,
                   md_in, md_out, richtext_list, outcome_sentence>>

\* one iteration: urlretrieve returns (line 435)
download_ok ==
    /\ Downloading
    /\ local_file_location(pages[i_page], file_url) \notin disk
    /\ WellFormed(file_url)
    /\ disk' = disk \cup {local_file_location(pages[i_page], file_url)}
    /\ log' = Append(log, Event("Downloaded", i_page, i_file, file_url))
    /\ RewriteFile
    /\ NextFile
    /\ UNCHANGED <<parser, raw_notion, config, urls, sorted_id_by_year, stack,
                   md_in, md_out, richtext_list, outcome_sentence>>

\* one iteration: urlretrieve raises HTTPError (lines 437-438)
download_HTTPError ==
    /\ Downloading
    /\ local_file_location(pages[i_page], file_url) \notin disk
    /\ WellFormed(file_url)
    /\ log' = Append(log, Event("HTTPError", i_page, i_file, file_url))
    /\ RewriteFile
    /\ NextFile
    /\ UNCHANGED <<parser, raw_notion, config, urls, sorted_id_by_year, disk, stack,
                   md_in, md_out, richtext_list, outcome_sentence>>

\* a handler of ValueError that goes on to the rewrite of lines 442-459
download_ValueError_rewrites ==
    /\ Downloading
    /\ local_file_location(pages[i_page], file_url) \notin disk
    /\ ~WellFormed(file_url)
    /\ log' = Append(log, Event("ValueError", i_page, i_file, file_url))
    /\ RewriteFile
    /\ NextFile
    /\ UNCHANGED <<parser, raw_notion, config, urls, sorted_id_by_year, disk, stack,
                   md_in, md_out, richtext_list, outcome_sentence>>

\* one iteration: urlretrieve raises ValueError (lines 439-440)
download_ValueError ==
    /\ Downloading
    /\ local_file_location(pages[i_page], file_url) \notin disk
    /\ ~WellFormed(file_url)
    /\ log' = Append(log, Event("ValueError", i_page, i_file, file_url))
    /\ NextFile
    /\ UNCHANGED <<parser, raw_notion, config, pages, urls, sorted_id_by_year, disk,
                   stack, md_in, md_out, richtext_list, outcome_sentence>>

\* one iteration: urlretrieve raises an exception that is neither an
\* HTTPError nor a ValueError (URLError for a host that cannot be reached);
\* no handler of lines 437-440 takes it
download_URLError ==
    /\ Downloading
    /\ local_file_location(pages[i_page], file_url) \notin disk
    /\ WellFormed(file_url)
    /\ pc' = "aborted"
    /\ log' = Append(log, Event("URLError", i_page, i_file, file_url))
    /\ UNCHANGED <<parser, raw_notion, config, pages, urls, sorted_id_by_year, disk,
                   i_page, i_file, stack, md_in, md_out, richtext_list,
                   outcome_sentence>>

-----------------------------------------------------------------------------
(* sorting_db_entries, sorting_page_by_year *)

RECURSIVE Insert_unique(_, _, _)
\* an insertion that takes the place of an element with the same key
Insert_unique(s, x, key) ==
    IF Len(s) = 0 THEN <<x>>
    ELSE IF key[Head(s)] < key[x] THEN <<Head(s)>> \o Insert_unique(Tail(s), x, key)
         ELSE IF key[Head(s)] = key[x] THEN <<x>> \o Tail(s)
         ELSE <<x>> \o s

RECURSIVE Insert(_, _, _)
\* x put into the sorted list s after every element whose key is not greater
Insert(s, x, key) ==
    IF Len(s) = 0 THEN <<x>>
    ELSE IF key[Head(s)] <= key[x] THEN <<Head(s)>> \o Insert(Tail(s), x, key)
         ELSE <<x>> \o s

RECURSIVE sorted(_, _)
\* sorted(s, key=...): ascending and stable
sorted(s, key) ==
    IF Len(s) = 0 THEN <<>>
    ELSE Insert(sorted(SubSeq(s, 1, Len(s) - 1), key), s[Len(s)], key)

\* the place of the offset of a date string among the offsets, in the order
\* of str: no offset, then "+00:00" < "+01:00" < ..., then "-01:00" < ...
OffsetRank(d) ==
    IF ~d.aware THEN 0
    ELSE IF d.off >= 0 THEN 1 + d.off ELSE 50 - d.off

\* the place of a date string in the order of str (line 468 compares the
\* raw strings): year, then time of the year, then offset
StrKey(d) ==
    (d.year * TicksPerYear + d.tick) * 100 + OffsetRank(d)

HasDate(p) == pages[p].date # NoDate

\* line 464-466: the databases whose children are sorted
SortedDb(p) ==
    /\ pages[p].type = "database"
    /\ Len(pages[p].children) > 1
    /\ HasDate(pages[p].children[1])

\* lines 461-468
sorting_db_entries ==
    /\ pc = "sorting_db_entries"
    /\ IF \E p \in 1..Len(pages) :
             SortedDb(p) /\ \E c \in Range(pages[p].children) : ~HasDate(c)
       THEN /\ Abort("KeyError")
            /\ UNCHANGED pages
       ELSE /\ pages' = [p \in 1..Len(pages) |->
                           IF SortedDb(p)
                           THEN [pages[p] EXCEPT !.children =
                                   sorted(@, [c \in 1..Len(pages) |->
                                                 StrKey(pages[c].date)])]
                           ELSE pages[p]]
            /\ pc' = "sorting_page_by_year"
            /\ UNCHANGED log
    /\ UNCHANGED <<parser, raw_notion, config, urls, sorted_id_by_year, disk, i_page,
                   i_file, stack, md_in, md_out, richtext_list,
                   outcome_sentence>>

RECURSIVE Dated(_)
\* line 473: the pages that have a date, in the order of pages
Dated(p) ==
    IF p > Len(pages) THEN <<>>
    ELSE (IF HasDate(p) THEN <<p>> ELSE <<>>) \o Dated(p + 1)

\* line 475: sorted(..., key=the datetime, reverse=True), which keeps the
\* order of equal datetimes
sorted_pages ==
    sorted(Dated(1), [c \in 1..Len(pages) |-> 0 - Instant(pages[c].date)])

\* sorted_id_by_year[year] = value: a present key keeps its place
DictSet(d, year, value) ==
    IF \E k \in 1..Len(d) : d[k].year = year
    THEN [k \in 1..Len(d) |->
            IF d[k].year = year THEN [d[k] EXCEPT !.ids = value] ELSE d[k]]
    ELSE Append(d, [year |-> year, ids |-> value])

DictGet(d, year) == (CHOOSE k \in 1..Len(d) : d[k].year = year)

RECURSIVE GroupByYear(_, _, _)
\* lines 477-481: itertools.groupby starts a group whenever the year of the
\* next page differs from the year of the page before it
GroupByYear(ids, prev_year, d) ==
    IF Len(ids) = 0 THEN d
    ELSE LET year == pages[Head(ids)].date.year
         IN  GroupByYear(Tail(ids), year,
                 IF year # prev_year THEN DictSet(d, year, <<Head(ids)>>)
                 ELSE [d EXCEPT ![DictGet(d, year)].ids = Append(@, Head(ids))])

\* lines 471-482
sorting_page_by_year ==
    /\ pc = "sorting_page_by_year"
    /\ IF \E p, q \in Range(Dated(1)) : ~Comparable(pages[p].date, pages[q].date)
       THEN /\ Abort("TypeError")
            /\ UNCHANGED sorted_id_by_year
       ELSE /\ sorted_id_by_year' = GroupByYear(sorted_pages, 0, <<>>)
            /\ pc' = "done"
            /\ UNCHANGED log
    /\ UNCHANGED <<parser, raw_notion, config, pages, urls, disk, i_page, i_file,
                   stack, md_in, md_out, richtext_list, outcome_sentence>>

-----------------------------------------------------------------------------
(* The raw inputs.  The fetch layer (notion2json.notion_page_parser) stores *)
(* a page before the pages below it, so the parent of every key but the     *)
(* first is an earlier key; the children of a database are pages with a     *)
(* database_id parent; the blocks of a page end with one reference block    *)
(* per child, in key order.                                                 *)

Block(type) ==
    [type |-> type, id |-> 0, has_children |-> FALSE, children |-> <<>>,
     text |-> <<>>, checked |-> FALSE, url |-> NoneV, external |-> NoneV,
     file |-> NoneV, caption |-> <<>>, cells |-> <<>>, language |-> <<>>]

\* the hierarchies of n keys: the parent key and the object of every key
Shapes(n) ==
    {sh \in [1..n -> [parent : 0..(n - 1), object : {"page", "database"}]] :
        /\ sh[1].parent = 0
        /\ \A k \in 2..n :
              /\ sh[k].parent \in 1..(k - 1)
              /\ sh[sh[k].parent].object = "database" => sh[k].object = "page"}

IsEntry(sh, k) == sh[k].parent # 0 /\ sh[sh[k].parent].object = "database"

RECURSIVE ReferenceBlocks(_, _, _)
\* the reference blocks of key p to its children at or after key k
ReferenceBlocks(sh, p, k) ==
    IF k > Len(sh) THEN <<>>
    ELSE (IF sh[k].parent = p
          THEN <<[Block(IF sh[p].object = "database" THEN "db_entry"
                        ELSE IF sh[k].object = "database" THEN "child_database"
                        ELSE "child_page") EXCEPT !.id = k]>>
          ELSE <<>>)
         \o ReferenceBlocks(sh, p, k + 1)

NoIcon == [kind |-> "none", value |-> NoneV]

TitleProperty == [name |-> "Name", type |-> "title", value |-> NoneV]

DateProperty(d) ==
    [name |-> "Date", type |-> "date", value |-> [start |-> d, end |-> NoDate]]

\* the raw mapping of a hierarchy sh with the given titles, dates of the
\* database entries, covers, icons, content blocks and files properties
RawNotion(sh, title, date, cover, icon, content, files) ==
    [k \in 1..Len(sh) |->
        [object     |-> sh[k].object,
         parent     |-> IF sh[k].parent = 0
                        THEN [type |-> "workspace", id |-> 0]
                        ELSE [type |-> IF IsEntry(sh, k) THEN "database_id"
                                       ELSE "page_id",
                              id |-> sh[k].parent],
         title      |-> title[k],
         cover      |-> cover[k],
         icon       |-> icon[k],
         blocks     |-> content[k] \o ReferenceBlocks(sh, k, 1),
         properties |-> IF IsEntry(sh, k)
                        THEN <<TitleProperty>>
                             \o (IF date[k] # NoDate THEN <<DateProperty(date[k])>>
                                 ELSE <<>>)
                             \o (IF Len(files[k]) > 0
                                 THEN <<[name |-> "Files", type |-> "files",
                                         value |-> files[k]]>>
                                 ELSE <<>>)
                        ELSE <<>>]]

\* the state when structurize_notion_content is called (lines 485-488)
Start ==
    /\ NoParser
    /\ pages = <<>>
    /\ urls = <<>>
    /\ sorted_id_by_year = <<>>
    /\ pc = "parse_headers"
    /\ i_page = 1
    /\ i_file = 1
    /\ stack = <<>>
    /\ log = <<>>
    /\ md_in = <<>>
    /\ md_out = <<>>
    /\ richtext_list = <<>>
    /\ outcome_sentence = <<>>

Constant(n, v) == [k \in 1..n |-> v]

-----------------------------------------------------------------------------
(* Spec: the hierarchy and the urls.  Every key is a page; the titles vary. *)

Titles == {<<"a">>, <<"a", " ">>, <<"a", "/", "a">>, NoneV}

Init ==
    /\ \E n \in 1..NumPages :
       \E sh \in Shapes(n) :
       \E title \in [1..n -> Titles] :
          /\ \A k \in 1..n : sh[k].object = "page"
          /\ raw_notion = RawNotion(sh, title, Constant(n, NoDate),
                                    Constant(n, NoneV), Constant(n, NoIcon),
                                    Constant(n, <<>>), Constant(n, <<>>))
    /\ config \in [build_locally : BOOLEAN, download_files : {FALSE}]
    /\ disk = {}
    /\ Start

\* structurize_notion_content (lines 484-514) with download_files off
Structurize ==
    \/ parse_headers
    \/ find_lists_in_dbs
    \/ parse_family_lines
    \/ generate_urls
    \/ parse_markdown
    \/ parse_db_entry_properties
    \/ sorting_db_entries
    \/ sorting_page_by_year

Next == Structurize

Spec == Init /\ [][Next]_vars

-----------------------------------------------------------------------------
(* SpecOrdering: the dates.  The keys are pages, databases and database     *)
(* entries; the entries carry a date or none.                               *)

Years == {2021, 2022}

\* the date strings: without offset, or with an offset of one tick
Dates ==
    [year : Years, tick : 0..(TicksPerYear - 1), aware : {FALSE}, off : {0}]
    \cup [year : Years, tick : 0..(TicksPerYear - 1), aware : {TRUE},
          off : {-1, 1}]

InitOrdering ==
    /\ \E n \in 1..NumDated :
       \E sh \in Shapes(n) :
       \E date \in [1..n -> Dates \cup {NoDate}] :
          /\ \A k \in 1..n : ~IsEntry(sh, k) => date[k] = NoDate
          /\ raw_notion = RawNotion(sh, Constant(n, <<"a">>), date,
                                    Constant(n, NoneV), Constant(n, NoIcon),
                                    Constant(n, <<>>), Constant(n, <<>>))
    /\ config = [build_locally |-> FALSE, download_files |-> FALSE]
    /\ disk = {}
    /\ Start

SpecOrdering == InitOrdering /\ [][Next]_vars

-----------------------------------------------------------------------------
(* SpecAssets: the files.  A database and one entry of it; the covers, the  *)
(* image blocks and the files property of the entry vary, and so does what  *)
(* is on the disk before the run.                                           *)

\* number of image blocks of the entry
MaxBlocks == 1
\* number of urls of the files property of the entry
MaxPropFiles == 1

U_a == <<"R", "/", "a">>
U_ab == <<"R", "/", "a", "/", "b">>
U_bq == <<"R", "/", "b", "?", "q">>
U_bad == <<"r", "/", "a">>
Urls == {U_a, U_ab, U_bq, U_bad}

SeqsUpTo(S, n) == UNION {[1..k -> S] : k \in 0..n}

ImageBlocks(us) == [k \in 1..Len(us) |-> [Block("image") EXCEPT !.url = us[k]]]

InitAssets ==
    /\ \E cover1 \in {NoneV, U_a, U_bad} :
       \E cover2 \in {NoneV, U_a} :
       \E images \in SeqsUpTo(Urls, MaxBlocks) :
       \E files \in SeqsUpTo({U_a, U_ab}, MaxPropFiles) :
          raw_notion =
              RawNotion(<<[parent |-> 0, object |-> "database"],
                          [parent |-> 1, object |-> "page"]>>,
                        <<<<"a">>, <<"e">>>>,
                        Constant(2, NoDate),
                        <<cover1, cover2>>,
                        Constant(2, NoIcon),
                        <<<<>>, ImageBlocks(images)>>,
                        <<<<>>, files>>)
    /\ config \in [build_locally : BOOLEAN, download_files : {TRUE}]
    /\ disk \in {{}, {<<"e", "/", "a">>}}
    /\ Start

\* structurize_notion_content (lines 484-514) with download_files on
NextAssets ==
    \/ Structurize
    \/ download_exists
    \/ download_ok
    \/ download_HTTPError
    \/ download_ValueError
    \/ download_URLError

SpecAssets == InitAssets /\ [][NextAssets]_vars

-----------------------------------------------------------------------------
(* SpecGrouping: grouping applied to a markdown string, and again to what   *)
(* it returned.                                                             *)

\* number of pieces a markdown string is made of
MaxPieces == 3
\* number of times grouping is applied in a row
MaxPasses == 2

\* the list markers, a word, a tab and a line end
Pieces ==
    {<<"*", " ">>, <<"1", ".", " ">>, <<"-", " ", "[", " ", "]">>, <<"a">>,
     <<"\t">>, <<NL>>}

\* the stages of structurize_notion_content do not run
Idle ==
    /\ NoParser
    /\ raw_notion = <<>>
    /\ config = [build_locally |-> FALSE, download_files |-> FALSE]
    /\ pages = <<>>
    /\ urls = <<>>
    /\ sorted_id_by_year = <<>>
    /\ disk = {}
    /\ i_page = 1
    /\ i_file = 1
    /\ stack = <<>>
    /\ log = <<>>

InitGrouping ==
    /\ Idle
    /\ pc = "grouping"
    /\ md_in \in {Concat(ps) : ps \in SeqsUpTo(Pieces, MaxPieces)}
    /\ md_out = <<>>
    /\ richtext_list = <<>>
    /\ outcome_sentence = <<>>

\* page_md = grouping(page_md) (line 373), on the string given first and then
\* on the string the call before returned
group_pass ==
    /\ pc = "grouping"
    /\ Len(md_out) < MaxPasses
    /\ md_out' = Append(md_out, grouping(IF Len(md_out) = 0 THEN md_in
                                         ELSE md_out[Len(md_out)]))
    /\ UNCHANGED <<parser, raw_notion, config, pages, urls, sorted_id_by_year, disk, pc,
                   i_page, i_file, stack, log, md_in, richtext_list,
                   outcome_sentence>>

NextGrouping == group_pass

SpecGrouping == InitGrouping /\ [][NextGrouping]_vars

-----------------------------------------------------------------------------
(* SpecRichText: rich text lists.  One plain span with any active           *)
(* annotations declared in any order, or a list of spans of several kinds.  *)

\* number of spans of a list
MaxSpans == 2

\* the orders in which a span can declare the keys of annotation_map
Orders ==
    {o \in [1..Len(annotation_map) -> 1..Len(annotation_map)] :
        \A j, k \in 1..Len(annotation_map) : o[j] = o[k] => j = k}

\* a span that declares the annotation keys in the order o, those of on set
Span(type, plain_text, href, o, on, c, mention_type) ==
    [type        |-> type,
     plain_text  |-> plain_text,
     href        |-> href,
     text        |-> [content |-> plain_text, link |-> href],
     annotations |-> [k \in 1..Len(annotation_map) |->
                        [key |-> annotation_map[o[k]],
                         on  |-> annotation_map[o[k]] \in on]],
     color       |-> c,
     mention     |-> mention_type]

\* the order of annotation_map itself
Declared == [k \in 1..Len(annotation_map) |-> k]

TextSpans ==
    {Span("text", <<"a">>, href, o, on, c, "none") :
        href \in {NoneV, <<"h">>}, o \in Orders,
        on \in SUBSET Range(annotation_map), c \in {"default", "red"}}

SomeSpans ==
    {Span("text", <<"a">>, NoneV, Declared, {"bold"}, "default", "none"),
     Span("text", <<"b">>, NoneV, Declared, {"bold"}, "default", "none"),
     Span("text", <<"b">>, <<"h">>, Declared, {}, "red", "none"),
     Span("equation", <<"x">>, NoneV, Declared, {}, "default", "none"),
     Span("mention", <<"u">>, NoneV, Declared, {}, "default", "user"),
     Span("mention", <<"Untitled">>, <<"h">>, Declared, {}, "default", "page"),
     Span("mention", <<"p">>, NoneV, Declared, {}, "default", "page")}

InitRichText ==
    /\ Idle
    /\ pc = "richtext"
    /\ md_in = <<>>
    /\ md_out = <<>>
    /\ richtext_list \in {<<s>> : s \in TextSpans}
                         \cup SeqsUpTo(SomeSpans, MaxSpans)
    /\ outcome_sentence = <<>>

\* a call of richtext_convertor (lines 339-343); page(information) raises
\* KeyError for a page mention without href
convert_richtext ==
    /\ pc = "richtext"
    /\ IF \E k \in 1..Len(richtext_list) : MentionKeyError(richtext_list[k])
       THEN /\ Abort("KeyError")
            /\ UNCHANGED outcome_sentence
       ELSE /\ outcome_sentence' = richtext_convertor(richtext_list)
            /\ pc' = "done"
            /\ UNCHANGED log
    /\ UNCHANGED <<parser, raw_notion, config, pages, urls, sorted_id_by_year, disk,
                   i_page, i_file, stack, md_in, md_out, richtext_list>>

NextRichText == convert_richtext

SpecRichText == InitRichText /\ [][NextRichText]_vars

-----------------------------------------------------------------------------
(* Properties of the hierarchy and of the urls (Spec, SpecOrdering). *)

\* generate_urls has returned for the root and for every page below it
UrlsAssigned ==
    pc \in {"parse_markdown", "parse_db_entry_properties",
            "download_and_replace_paths", "sorting_db_entries",
            "sorting_page_by_year", "done"}

\* C1: the urls given so far are pairwise distinct, and once generate_urls
\* has run from the root every page has a url, so that the urls of all pages
\* are pairwise distinct, whatever the titles.
C1_UrlsDistinct ==
    /\ \A p, q \in 1..Len(pages) :
          (p # q /\ pages[p].url # NoUrl) => pages[p].url # pages[q].url
    /\ UrlsAssigned => \A p \in 1..Len(pages) : pages[p].url # NoUrl

\* C1 witness: the run is over and a page took a longer name because the url
\* of its own name was the url of a page under another parent.
C1_CousinCollision ==
    /\ pc = "done"
    /\ \E p, q \in 2..Len(pages) :
          /\ pages[p].parent # pages[q].parent
          /\ pages[p].url = Candidate(pages[pages[q].parent].url,
                                      Slug(pages[q].title))
          /\ pages[q].url = Candidate(pages[pages[q].parent].url,
                                      Slug(pages[q].title) \o <<"_">>)

\* the number of places of s that hold x
Count(s, x) == Cardinality({k \in 1..Len(s) : s[k] = x})

\* C2: after parse_headers and until the end of the run, every page but the
\* root has a parent that is a page, the children of this parent hold the
\* page exactly once, and the children of no other page hold it.
C2_OneOwner ==
    pc \notin {"parse_headers", "aborted"} =>
        \A p \in 2..Len(pages) :
            /\ pages[p].parent \in 1..Len(pages)
            /\ \A q \in 1..Len(pages) :
                  Count(pages[q].children, p)
                      = IF q = pages[p].parent THEN 1 ELSE 0

\* C2 witness: the run is over and sorting_db_entries has put the second
\* entry of a database before the first.
C2_Resorted ==
    /\ pc = "done"
    /\ \E p \in 1..Len(pages) :
          pages[p].type = "database" /\ pages[p].children = <<3, 2>>

\* the years of the dated pages
DatedYears == {pages[p].date.year : p \in Range(Dated(1))}

\* C10: at the end of the run sorted_id_by_year has one key per year of the
\* dated pages, the keys descend, the pages of a key descend by date, and
\* every dated page is exactly once in the list of its own year and in no
\* other list.
C10_YearIndex ==
    pc = "done" =>
        /\ \A j, k \in 1..Len(sorted_id_by_year) :
              j < k => sorted_id_by_year[j].year > sorted_id_by_year[k].year
        /\ {sorted_id_by_year[k].year : k \in 1..Len(sorted_id_by_year)}
              = DatedYears
        /\ \A k \in 1..Len(sorted_id_by_year) :
              LET ids == sorted_id_by_year[k].ids
              IN  /\ \A i, j \in 1..Len(ids) :
                        i < j => Instant(pages[ids[i]].date)
                                     >= Instant(pages[ids[j]].date)
                  /\ \A p \in 1..Len(pages) :
                        Count(ids, p)
                            = IF HasDate(p)
                                 /\ pages[p].date.year = sorted_id_by_year[k].year
                              THEN 1 ELSE 0

-----------------------------------------------------------------------------
(* Properties of download_and_replace_paths (SpecAssets). *)

\* download_and_replace_paths has returned
Localized ==
    config.download_files
    /\ pc \in {"sorting_db_entries", "sorting_page_by_year", "done"}

FetchedEvents == {"Downloaded", "already exists"}

\* the file url of page p was fetched, or its file was there already
Fetched(p, url) ==
    \E k \in 1..Len(log) :
        log[k].page = p /\ log[k].url = url /\ log[k].event \in FetchedEvents

\* every file of page p was fetched or there already
AllFetched(p) ==
    \A k \in 1..Len(log) : log[k].page = p => log[k].event \in FetchedEvents

\* the local path that stands for a fetched url of page p
LocalPath(p, url) ==
    IF url # NoneV /\ Fetched(p, url) THEN new_url(pages[p], url) ELSE url

LocalBlocks(p) ==
    [k \in 1..Len(raw_notion[p].blocks) |->
        [raw_notion[p].blocks[k] EXCEPT !.url = LocalPath(p, @)]]

LocalProperties(p) ==
    [k \in 1..Len(raw_notion[p].properties) |->
        IF raw_notion[p].properties[k].type = "files"
        THEN [raw_notion[p].properties[k] EXCEPT
                !.value = [j \in 1..Len(@) |-> LocalPath(p, @[j])]]
        ELSE raw_notion[p].properties[k]]

\* some value of the page holds url
Holds(page, url) ==
    \/ url \in Range(page.files)
    \/ Contains(page.md_content, url)
    \/ page.cover = url
    \/ page.icon = url
    \/ \E k \in 1..Len(page.properties_md) :
          Contains(page.properties_md[k].value, url)

\* C3: after download_and_replace_paths, for a page whose files were all
\* fetched (or there already), no value of the page holds a url of its files
\* list any more, and files, md_content, cover, icon and properties_md are
\* what the raw page gives with every such url replaced by its local path,
\* wherever and however often the url occurs.
C3_RewriteComplete ==
    Localized =>
        \A p \in 1..Len(pages) :
            AllFetched(p) =>
                /\ \A k \in 1..Len(log) :
                      log[k].page = p =>
                          /\ ~Holds(pages[p], log[k].url)
                          /\ pages[p].files[log[k].file]
                                = new_url(pages[p], log[k].url)
                /\ pages[p].md_content
                      = StrReplace(grouping(blocks_convertor(LocalBlocks(p), pages)),
                                   <<NL, NL, NL>>, <<NL, NL>>)
                /\ pages[p].cover = LocalPath(p, raw_notion[p].cover)
                /\ pages[p].icon = LocalPath(p, Header(raw_notion[p]).icon)
                /\ pages[p].type = "db_entry" =>
                      pages[p].properties_md = properties_md(LocalProperties(p))

\* the step logs event as its last entry
Logged(event) ==
    /\ Len(log') = Len(log) + 1
    /\ log'[Len(log')].event = event

\* the loops of lines 412-413 go on to the next file, or end
GoesOn ==
    /\ pc' # "aborted"
    /\ <<i_page', i_file'>> # <<i_page, i_file>> \/ pc' = "sorting_db_entries"

\* C4: the iteration in which the fetch raises HTTPError logs it, leaves
\* every value of the pages as it is (the file url stays in files,
\* md_content, cover, icon and properties_md) and goes on to the next file.
C4_HTTPErrorKeepsUrl ==
    [][Logged("HTTPError") => (pages' = pages /\ GoesOn)]_vars

\* C5: the iteration in which the fetch raises ValueError leaves every value
\* of every page as it is (files, md_content, cover, icon, properties_md)
\* and goes on to the next file.
C5_ValueErrorSkips ==
    [][Logged("ValueError") => (pages' = pages /\ GoesOn)]_vars

\* C5 witness: the run is over, a fetch raised ValueError, and a later file
\* of the same page was fetched.
C5_SkippedThenFetched ==
    /\ pc = "done"
    /\ \E j, k \in 1..Len(log) :
          /\ j < k
          /\ log[j].event = "ValueError"
          /\ log[k].page = log[j].page
          /\ log[k].event \in FetchedEvents

\* C6: no iteration of download_and_replace_paths ends the run, whatever the
\* fetch raises, and after it every file of every page has been taken.
C6_FetchFailureIsolated ==
    /\ pc = "aborted" => log[Len(log)].file = 0
    /\ Localized =>
          \A p \in 1..Len(pages) :
          \A k \in 1..Len(pages[p].files) :
              \E j \in 1..Len(log) : log[j].page = p /\ log[j].file = k

-----------------------------------------------------------------------------
(* Properties of grouping (SpecGrouping) and of rich text (SpecRichText). *)

\* C7: grouping applied to what grouping returned returns the same string,
\* for every markdown string, also one whose first line is a list item and
\* one that ends in empty lines.
C7_GroupingIdempotent ==
    Len(md_out) >= 2 => md_out[2] = md_out[1]

\* the span declares key as set
Active(span, key) == [key |-> key, on |-> TRUE] \in Range(span.annotations)

Wrap(on, left, content, right) ==
    IF on THEN left \o content \o right ELSE content

\* the link, inside bold, inside italic, inside strikethrough, inside
\* underline, inside code, inside the colour
Nested(span) ==
    LET linked == IF span.href # NoneV
                  THEN <<"[">> \o span.text.content \o <<"]", "(">>
                       \o span.text.link \o <<")">>
                  ELSE span.plain_text
        b == Wrap(Active(span, "bold"), <<"*", "*">>, linked, <<"*", "*">>)
        i == Wrap(Active(span, "italic"), <<"*">>, b, <<"*">>)
        s == Wrap(Active(span, "strikethrough"), <<"~", "~">>, i, <<"~", "~">>)
        u == Wrap(Active(span, "underline"), <<"<u>">>, s, <<"</u>">>)
        c == Wrap(Active(span, "code"), <<"bq">>, u, <<"bq">>)
    IN  Wrap(span.color # "default",
             <<"<span style='color:", span.color, "'>">>, c, <<"</span>">>)

\* the span with its annotation keys declared in the order o
Redeclared(span, o) ==
    [span EXCEPT !.annotations =
        [k \in 1..Len(annotation_map) |->
            [key |-> annotation_map[o[k]],
             on  |-> Active(span, annotation_map[o[k]])]]]

\* C8: the rendering of a plain span is its link or text wrapped by the
\* active annotations in the order bold, italic, strikethrough, underline,
\* code and then by the colour when it is not "default", and a span that
\* declares its annotation keys in any order renders as the span that
\* declares them in the order of annotation_map.
C8_FixedNesting ==
    (pc = "done" /\ Len(richtext_list) = 1 /\ richtext_list[1].type = "text") =>
        /\ outcome_sentence = Nested(richtext_list[1])
        /\ richtext_word_converter(Redeclared(richtext_list[1], Declared))
              = outcome_sentence

\* C8 witness: a rendered span with a link and a colour that declares code
\* before bold, both set.
C8_CodeDeclaredFirst ==
    /\ pc = "done"
    /\ Len(richtext_list) = 1
    /\ LET span == richtext_list[1]
       IN  /\ span.type = "text"
           /\ span.href # NoneV
           /\ span.color # "default"
           /\ span.annotations[1] = [key |-> "code", on |-> TRUE]
           /\ span.annotations[2] = [key |-> "bold", on |-> TRUE]

\* C9: the rendering of a list of spans is the renderings of its spans one
\* after the other in the order of the list, so that the rendering of a list
\* is the rendering of any first part followed by that of the rest.
C9_OrderPreserving ==
    pc = "done" =>
        /\ outcome_sentence
              = Concat([k \in 1..Len(richtext_list) |->
                           richtext_word_converter(richtext_list[k])])
        /\ \A k \in 0..Len(richtext_list) :
              outcome_sentence
                  = richtext_convertor(SubSeq(richtext_list, 1, k))
                    \o richtext_convertor(SubSeq(richtext_list, k + 1,
                                                 Len(richtext_list)))

\* C9 witness: a rendered list of two bold spans with different texts.
C9_TwoBoldSpans ==
    /\ pc = "done"
    /\ Len(richtext_list) = 2
    /\ richtext_list[1] # richtext_list[2]
    /\ \A k \in 1..2 :
          richtext_list[k].type = "text" /\ Active(richtext_list[k], "bold")


-----------------------------------------------------------------------------
(* Properties of sorting_db_entries (SpecOrdering). *)

\* sorting_db_entries has returned
DbSorted == pc \in {"sorting_page_by_year", "done"}

\* C11: after sorting_db_entries the children of a database with more than
\* one child whose first child has a date, all with dates that can be
\* compared, are the children parse_headers gave it (the entries in key
\* order), ascending by the instant of the date, and entries of one instant
\* are in their original order.
C11_SortedByInstant ==
    DbSorted =>
        \A p \in 1..Len(pages) :
            LET c == pages[p].children
            IN  (/\ pages[p].type = "database"
                 /\ Len(c) > 1
                 /\ \A j, k \in 1..Len(c) :
                       HasDate(c[j]) /\ Comparable(pages[c[j]].date,
                                                   pages[c[k]].date))
                =>
                /\ \A q \in 1..Len(pages) :
                      Count(c, q) = IF pages[q].parent = p THEN 1 ELSE 0
                /\ \A j, k \in 1..Len(c) :
                      j < k =>
                          \/ Instant(pages[c[j]].date) < Instant(pages[c[k]].date)
                          \/ /\ Instant(pages[c[j]].date) = Instant(pages[c[k]].date)
                             /\ c[j] < c[k]


-----------------------------------------------------------------------------
(* SpecSlugs: the hierarchy and the urls for titles that differ and give    *)
(* the same name: a space of a title becomes "_", the character that the    *)
(* loop of generate_urls appends.                                           *)

SlugTitles == {<<"a">>, <<"a", " ">>, <<"a", "_">>}

InitSlugs ==
    /\ \E n \in 1..NumPages :
       \E sh \in Shapes(n) :
       \E title \in [1..n -> SlugTitles] :
          /\ \A k \in 1..n : sh[k].object = "page"
          /\ raw_notion = RawNotion(sh, title, Constant(n, NoDate),
                                    Constant(n, NoneV), Constant(n, NoIcon),
                                    Constant(n, <<>>), Constant(n, <<>>))
    /\ config \in [build_locally : BOOLEAN, download_files : {FALSE}]
    /\ disk = {}
    /\ Start

SpecSlugs == InitSlugs /\ [][Next]_vars

-----------------------------------------------------------------------------
(* Properties of generate_urls (Spec, SpecSlugs). *)

\* k times the character that the loop appends
Underscores(k) == [j \in 1..k |-> "_"]

\* the url of page p is the url of its name with k characters appended
Suffixed(p, k) ==
    pages[p].url = Candidate(pages[pages[p].parent].url,
                             Slug(pages[p].title) \o Underscores(k))

\* p and q are pages with the same parent and the same title, p the first
\* page of this title under the parent and q a later one
SameTitleSiblings(p, q) ==
    /\ p \in 2..Len(pages)
    /\ q \in 2..Len(pages)
    /\ p < q
    /\ pages[p].parent = pages[q].parent
    /\ pages[p].title = pages[q].title
    /\ \A r \in 2..(p - 1) :
          ~(pages[r].parent = pages[p].parent /\ pages[r].title = pages[p].title)

\* the place of url in the urls accumulator, 0 when it is not there
UrlIndex(url) ==
    IF url \in Range(urls) THEN CHOOSE k \in 1..Len(urls) : urls[k] = url ELSE 0

\* C12 as stated: of two pages with the same title under one parent, the
\* earlier one has the url of the plain name and the later one the url of
\* the name with a suffix; both urls are in urls and differ.
C12_FirstSiblingPlain ==
    UrlsAssigned =>
        \A p, q \in 1..Len(pages) :
            SameTitleSiblings(p, q) =>
                /\ Suffixed(p, 0)
                /\ \E k \in 1..Len(pages) : Suffixed(q, k)
                /\ UrlIndex(pages[p].url) # 0
                /\ UrlIndex(pages[q].url) # 0
                /\ pages[p].url # pages[q].url

\* C12 amended: of two pages with the same title under one parent, the
\* later one has the url of the name with more suffix characters than the
\* earlier one, and the earlier one has the url of the plain name unless
\* this url was given to another page before it; both urls are in urls and
\* differ.
C12_LaterSiblingLonger ==
    UrlsAssigned =>
        \A p, q \in 1..Len(pages) :
            SameTitleSiblings(p, q) =>
                /\ \E i, j \in 0..Len(pages) :
                      /\ i < j
                      /\ Suffixed(p, i)
                      /\ Suffixed(q, j)
                      /\ i > 0 =>
                            \E r \in 1..Len(pages) :
                                /\ r # p
                                /\ pages[r].url =
                                      Candidate(pages[pages[p].parent].url,
                                                Slug(pages[p].title))
                                /\ UrlIndex(pages[r].url) < UrlIndex(pages[p].url)
                /\ UrlIndex(pages[p].url) # 0
                /\ UrlIndex(pages[q].url) # 0
                /\ pages[p].url # pages[q].url

\* C12 witness: the run is over and of two pages with the same title under
\* one parent the first has the url of the plain name and the second the
\* url of the name with one character appended.
C12_SecondSuffixed ==
    /\ pc = "done"
    /\ \E p, q \in 1..Len(pages) :
          SameTitleSiblings(p, q) /\ Suffixed(p, 0) /\ Suffixed(q, 1)


RECURSIVE PreOrder(_)
RECURSIVE PreOrderAll(_)
\* the pages of the lists of ids, each followed by the pages below it
PreOrderAll(ids) ==
    IF Len(ids) = 0 THEN <<>>
    ELSE PreOrder(Head(ids)) \o PreOrderAll(Tail(ids))

\* page p and the pages below it: a page before its children, the children
\* in the order of children
PreOrder(p) == <<p>> \o PreOrderAll(pages[p].children)

\* C13: after generate_urls the urls accumulator holds one entry per page,
\* and its entries are the urls of the pages in pre-order from the root (a
\* page before its children, the children in the order of children).
C13_UrlsPreOrder ==
    UrlsAssigned =>
        /\ Len(urls) = Len(pages)
        /\ urls = [k \in 1..Len(pages) |-> pages[PreOrder(1)[k]].url]

\* C13 witness: the run is over and a page has its place in urls after a
\* page with a later key (a page below an earlier sibling).
C13_ChildBeforeUncle ==
    /\ pc = "done"
    /\ \E p, q \in 1..Len(pages) :
          p < q /\ UrlIndex(pages[p].url) > UrlIndex(pages[q].url)


\* the next call of generate_urls is for a page below the root that has a
\* title
NamesPage ==
    /\ pc = "generate_urls"
    /\ Len(stack) > 0
    /\ Head(stack) # 1
    /\ pages[Head(stack)].title # NoneV

\* the candidate url of the page of the next call after k turns of the loop
Retry(k) ==
    Candidate(pages[pages[Head(stack)].parent].url,
              Slug(pages[Head(stack)].title) \o Underscores(k))

\* C14: for the page of the next call of generate_urls and the urls given
\* so far, the candidates of the loop differ from one another, each turn
\* appends one character, and after at most as many turns as urls has
\* entries the candidate is not in urls: the loop ends with the first such
\* candidate.
C14_LoopEnds ==
    NamesPage =>
        /\ \A j, k \in 0..(Len(urls) + 1) : j # k => Retry(j) # Retry(k)
        /\ \E k \in 0..Len(urls) :
              /\ \A j \in 0..(k - 1) : Retry(j) \in Range(urls)
              /\ Retry(k) \notin Range(urls)
              /\ FreeName(pages[pages[Head(stack)].parent].url,
                          Slug(pages[Head(stack)].title), urls)
                    = Slug(pages[Head(stack)].title) \o Underscores(k)

\* C14 witness: the loop of the next call takes two turns.
C14_TwoTurns ==
    /\ NamesPage
    /\ Retry(0) \in Range(urls)
    /\ Retry(1) \in Range(urls)
    /\ Retry(2) \notin Range(urls)


-----------------------------------------------------------------------------
(* Properties of the whole run (SpecAssets). *)

\* C15: a step gives a url only to a page that has none, a url once given
\* stays as it is in every later step, and after generate_urls no step
\* (parse_markdown, parse_db_entry_properties, download_and_replace_paths,
\* sorting_db_entries, sorting_page_by_year) changes the urls accumulator.
C15_UrlImmutable ==
    [][/\ \A p \in 1..Len(pages) :
             pages[p].url # NoUrl =>
                 (Len(pages') = Len(pages) /\ pages'[p].url = pages[p].url)
       /\ UrlsAssigned => urls' = urls]_vars

\* C15 witness: the run is over, a file of a page was fetched and rewritten,
\* and every page has its url.
C15_RewrittenRun ==
    /\ pc = "done"
    /\ \E k \in 1..Len(log) : log[k].event = "Downloaded"
    /\ \A p \in 1..Len(pages) : pages[p].url # NoUrl


-----------------------------------------------------------------------------
(* SpecRoots: the parent references.  A mapping as notion_page_parser       *)
(* stores it, or such a mapping with the parent reference of one key        *)
(* replaced by a reference to a page, block or database that is no key of    *)
(* the mapping, or by a reference to a later key.                           *)

\* the references that replace the parent of key k of n keys
OtherParents(n, k) ==
    [type : {"page_id", "block_id", "database_id"}, id : {n + 1}]
    \cup [type : {"page_id"}, id : (k + 1)..n]

InitRoots ==
    /\ \E n \in 1..NumPages :
       \E sh \in Shapes(n) :
          LET raw == RawNotion(sh, Constant(n, <<"a">>), Constant(n, NoDate),
                               Constant(n, NoneV), Constant(n, NoIcon),
                               Constant(n, <<>>), Constant(n, <<>>))
          IN  \/ raw_notion = raw
              \/ \E k \in 1..n :
                 \E ref \in OtherParents(n, k) :
                    raw_notion = [raw EXCEPT ![k].parent = ref]
    /\ config = [build_locally |-> FALSE, download_files |-> FALSE]
    /\ disk = {}
    /\ Start

SpecRoots == InitRoots /\ [][Next]_vars

-----------------------------------------------------------------------------
(* Properties of parse_headers (SpecRoots). *)

\* the parent reference of key k is not the workspace and names no key of
\* the mapping
Unresolved(k) ==
    /\ raw_notion[k].parent.type # "workspace"
    /\ raw_notion[k].parent.id \notin 1..Len(raw_notion)

\* C16: once parse_headers has returned, every key of the mapping is a page
\* of the model, the first key is the only page without parent, and the
\* parent of every other page is a page of the model; a mapping in which
\* the parent reference of a key (the first key or a later one) names no
\* key of the mapping never gets beyond the iteration of parse_headers for
\* this key, which ends the run with KeyError.
C16_SingleRoot ==
    /\ pc \notin {"parse_headers", "aborted"} =>
          /\ Len(pages) = Len(raw_notion)
          /\ pages[1].parent = 0
          /\ \A p \in 2..Len(pages) : pages[p].parent \in 1..Len(pages)
    /\ \A k \in 1..Len(raw_notion) :
          Unresolved(k) =>
              \/ pc = "parse_headers" /\ i_page <= k
              \/ /\ pc = "aborted"
                 /\ log[Len(log)].event = "KeyError"
                 /\ Len(pages) = k - 1

\* C16 witness: the run has ended with KeyError at the first key, whose
\* parent is a page that is no key of the mapping.
C16_RootBelowOutsidePage ==
    /\ pc = "aborted"
    /\ pages = <<>>
    /\ Unresolved(1)
    /\ raw_notion[1].parent.type = "page_id"
    /\ Len(raw_notion) > 1


-----------------------------------------------------------------------------
(* Properties of generate_urls for a page without title (Spec). *)

\* the number of pages that have a url
WithUrl == Cardinality({p \in 1..Len(pages) : pages[p].url # NoUrl})

\* C17 as stated: a page whose title is None never has a url, generate_urls
\* does not return when a page has no title, and urls holds no entry but
\* the urls of the pages.
C17_NullTitleNoUrl ==
    /\ \A p \in 1..Len(pages) : pages[p].title = NoneV => pages[p].url = NoUrl
    /\ UrlsAssigned => \A p \in 1..Len(pages) : pages[p].title # NoneV
    /\ Len(urls) = WithUrl

\* C17 amended: a page whose title is None never has a url, unless it is
\* the root of a build that is not local, whose url is the site url;
\* generate_urls does not return when another page has no title: the call
\* for this page ends the run with AttributeError, and urls holds no entry
\* but the urls of the pages.
C17_NullTitleRaises ==
    /\ \A p \in 1..Len(pages) :
          (pages[p].title = NoneV /\ (p # 1 \/ config.build_locally)) =>
              /\ pages[p].url = NoUrl
              /\ ~UrlsAssigned
    /\ (pc = "aborted" /\ log[Len(log)].event = "AttributeError") =>
          /\ pages[Head(stack)].title = NoneV
          /\ pages[Head(stack)].url = NoUrl
    /\ Len(urls) = WithUrl

\* C17 witness: the run has ended with AttributeError at a page without
\* title, after the root and another page got their urls.
C17_RaisedAtThirdPage ==
    /\ pc = "aborted"
    /\ log[Len(log)].event = "AttributeError"
    /\ Len(urls) = 2
    /\ Head(stack) # 1


-----------------------------------------------------------------------------
(* Properties of a file that is on the disk already (SpecAssets). *)

\* the step leaves the page of the file with the local path in the place of
\* the url in files, md_content, icon, cover and (for an entry of a database)
\* properties_md, and leaves everything else of the pages as it is
Rewritten ==
    LET old == pages[i_page].files[i_file]
        new == new_url(pages[i_page], old)
    IN  /\ Len(pages') = Len(pages)
        /\ \A p \in 1..Len(pages) : p # i_page => pages'[p] = pages[p]
        /\ pages'[i_page].files
              = [k \in 1..Len(pages[i_page].files) |->
                    IF k = i_file THEN new ELSE pages[i_page].files[k]]
        /\ pages'[i_page].md_content
              = StrReplace(pages[i_page].md_content, old, new)
        /\ pages'[i_page].icon
              = (IF pages[i_page].icon = old THEN new ELSE pages[i_page].icon)
        /\ pages'[i_page].cover
              = (IF pages[i_page].cover = old THEN new ELSE pages[i_page].cover)
        /\ pages'[i_page].properties_md
              = (IF pages[i_page].type = "db_entry"
                 THEN ReplaceInProperties(pages[i_page].properties_md, old, new)
                 ELSE pages[i_page].properties_md)
        /\ pages'[i_page].url = pages[i_page].url

\* C18: an iteration for a file whose destination is on the disk already
\* fetches nothing (it is logged as there already, and the disk stays as it
\* is), and it rewrites files, md_content, icon, cover and properties_md as
\* the iteration of a fetch that succeeded does.
C18_ExistingFileRewritten ==
    [][/\ (/\ pc = "download_and_replace_paths"
           /\ local_file_location(pages[i_page], file_url) \in disk)
          => (Logged("already exists") /\ disk' = disk /\ Rewritten /\ GoesOn)
       /\ Logged("Downloaded") => Rewritten]_vars

\* C18 witness: a file that was there already was the cover of its page, and
\* the cover and the files entry are its local path now.
C18_ExistingCoverLocal ==
    \E k \in 1..Len(log) :
        /\ log[k].event = "already exists"
        /\ raw_notion[log[k].page].cover = log[k].url
        /\ pages[log[k].page].cover = new_url(pages[log[k].page], log[k].url)
        /\ pages[log[k].page].files[log[k].file] = pages[log[k].page].cover
        /\ pages[log[k].page].cover # log[k].url


-----------------------------------------------------------------------------
(* SpecCovers: the covers.  Pages and databases in every hierarchy; every   *)
(* key has a cover or none.                                                 *)

InitCovers ==
    /\ \E n \in 1..NumPages :
       \E sh \in Shapes(n) :
       \E cover \in [1..n -> {NoneV, U_a}] :
          raw_notion = RawNotion(sh, Constant(n, <<"a">>), Constant(n, NoDate),
                                 cover, Constant(n, NoIcon),
                                 Constant(n, <<>>), Constant(n, <<>>))
    /\ config = [build_locally |-> FALSE, download_files |-> FALSE]
    /\ disk = {}
    /\ Start

SpecCovers == InitCovers /\ [][Next]_vars

\* find_lists_in_dbs has returned
ListsFound == pc \notin {"parse_headers", "find_lists_in_dbs", "aborted"}

\* the keys of raw_notion whose parent is key p
RawChildren(p) ==
    {c \in 1..Len(raw_notion) :
        raw_notion[c].parent.type # "workspace" /\ raw_notion[c].parent.id = p}

\* C19: after find_lists_in_dbs an entity has db_list set if and only if it
\* is a database and at least one of its children has no cover; a database
\* whose children all have a cover, a database without children, and every
\* entity that is not a database do not have it set.
C19_ListIffCoverless ==
    ListsFound =>
        \A p \in 1..Len(pages) :
            pages[p].db_list
                <=> /\ raw_notion[p].object = "database"
                    /\ \E c \in RawChildren(p) : raw_notion[c].cover = NoneV

\* C19 witness: the run is over with a database that is a list because the
\* second of its two children has no cover while the first has one; the
\* database has no cover itself and its parent, a page, is not marked.
C19_ListAndGallery ==
    /\ pc = "done"
    /\ \E p, q \in 1..Len(pages) :
          /\ pages[p].type = "database" /\ pages[p].db_list
          /\ Len(pages[p].children) = 2
          /\ pages[pages[p].children[1]].cover # NoneV
          /\ pages[pages[p].children[2]].cover = NoneV
          /\ pages[q].type = "page" /\ ~pages[q].db_list
          /\ p \in Range(pages[q].children)
          /\ pages[p].cover = NoneV


-----------------------------------------------------------------------------
(* SpecTables: one page whose content is one table.  Every row has the same *)
(* number of cells; a cell is one plain span, with or without a line break  *)
(* in its text.                                                             *)

\* number of rows of the table
MaxRows == 2
\* number of cells of a row
MaxCells == 2

\* the texts of a cell; Notion gives a line break inside a cell as "\n"
CellTexts == {<<"a">>, <<"b">>, <<"a", NL, "b">>}

Cell(text) == <<Span("text", text, NoneV, Declared, {}, "default", "none")>>

Table(n, k, text) ==
    [Block("table") EXCEPT
       !.has_children = TRUE,
       !.children = [j \in 1..n |->
                       [Block("table_row") EXCEPT
                          !.cells = [c \in 1..k |-> Cell(text[j][c])]]]]

InitTables ==
    /\ \E n \in 1..MaxRows :
       \E k \in 1..MaxCells :
       \E text \in [1..n -> [1..k -> CellTexts]] :
          raw_notion = RawNotion(<<[parent |-> 0, object |-> "page"]>>,
                                 <<<<"a">>>>, <<NoDate>>, <<NoneV>>, <<NoIcon>>,
                                 <<<<Table(n, k, text)>>>>, <<<<>>>>)
    /\ config = [build_locally |-> FALSE, download_files |-> FALSE]
    /\ disk = {}
    /\ Start

SpecTables == InitTables /\ [][Next]_vars

RECURSIVE SplitOn(_, _)
\* the pieces of s between the tokens c
SplitOn(s, c) ==
    LET k == FirstOf(s, c, 1)
    IN  IF k = 0 THEN <<s>>
        ELSE <<SubSeq(s, 1, k - 1)>> \o SplitOn(SubSeq(s, k + 1, Len(s)), c)

\* the line is k columns between pipes, each with a space on either side
PipeDelimited(line, k) ==
    LET piece == SplitOn(line, "|")
    IN  /\ Len(piece) = k + 2
        /\ piece[1] = <<" ">> /\ piece[k + 2] = <<" ">>
        /\ \A c \in 2..(k + 1) :
              Len(piece[c]) >= 2 /\ Head(piece[c]) = " "
              /\ piece[c][Len(piece[c])] = " "

\* the columns of a pipe-delimited line
Columns(line) ==
    LET piece == SplitOn(line, "|")
    IN  [c \in 1..(Len(piece) - 2) |->
            SubSeq(piece[c + 1], 2, Len(piece[c + 1]) - 1)]

\* parse_markdown has returned
Rendered ==
    pc \in {"parse_db_entry_properties", "sorting_db_entries",
            "sorting_page_by_year", "done"}

\* C20: a table of n >= 1 rows of k cells each is rendered as n + 1 lines,
\* each of k columns between pipes: the cells of the first row, then k
\* columns of dashes, then the cells of the rows after the first, in order.
C20_TableLines ==
    Rendered =>
        LET table == raw_notion[1].blocks[1]
            n == Len(table.children)
            k == Len(table.children[1].cells)
            lines == splitlines(pages[1].md_content)
        IN  /\ Len(lines) = n + 1
            /\ \A j \in 1..Len(lines) : PipeDelimited(lines[j], k)
            /\ Columns(lines[1]) = table_row(table.children[1])
            /\ Columns(lines[2]) = [c \in 1..k |-> <<"-", "-", "-", "-">>]
            /\ \A j \in 2..n : Columns(lines[j + 1]) = table_row(table.children[j])


-----------------------------------------------------------------------------
(* SpecMedia: one page whose content is blocks that carry a url, under any  *)
(* of the keys of the payload, at the top or below a toggle.                *)

\* number of blocks of the page
MaxMedia == 2

UrlKinds == {"image", "file", "bookmark", "embed", "video"}

\* a block of the kind with the url under the key
Media(kind, key, u) ==
    [Block(kind) EXCEPT
       !.url = IF key = "url" THEN u ELSE NoneV,
       !.external = IF key = "external" THEN u ELSE NoneV,
       !.file = IF key = "file" THEN u ELSE NoneV]

\* toggle is a key of block_type_map that goes to bulleted_list_item
Toggle(child) ==
    [Block("bulleted_list_item") EXCEPT
       !.text = Cell(<<"a">>), !.has_children = TRUE, !.children = <<child>>]

MediaBlocks ==
    {Media(kind, key, U_a) : kind \in UrlKinds, key \in {"url", "external", "file"}}
    \cup {Toggle(Media(kind, "url", U_ab)) : kind \in UrlKinds}

InitMedia ==
    /\ \E content \in SeqsUpTo(MediaBlocks, MaxMedia) :
       \E cover \in {NoneV, U_bq} :
          raw_notion = RawNotion(<<[parent |-> 0, object |-> "page"]>>,
                                 <<<<"a">>>>, <<NoDate>>, <<cover>>, <<NoIcon>>,
                                 <<content>>, <<<<>>>>)
    /\ config = [build_locally |-> FALSE, download_files |-> FALSE]
    /\ disk = {}
    /\ Start

SpecMedia == InitMedia /\ [][Next]_vars

\* the urls of a block, whatever the key
UrlsOf(block) == SelectSeq(<<block.url, block.external, block.file>>,
                           LAMBDA u : u # NoneV)

RECURSIVE ToDownload(_)
\* the urls of the images, files and bookmarks among the blocks and the
\* blocks below them, a block before its children
ToDownload(blocks) ==
    IF Len(blocks) = 0 THEN <<>>
    ELSE (IF Head(blocks).type \in {"image", "file", "bookmark"}
          THEN UrlsOf(Head(blocks)) ELSE <<>>)
         \o (IF Head(blocks).has_children
             THEN ToDownload(Head(blocks).children) ELSE <<>>)
         \o ToDownload(Tail(blocks))

\* C21: parse_markdown adds to the files of a page the url of every image,
\* file and bookmark block of the page, under whichever key of the payload
\* the url stands and at whatever depth the block is, in the order of the
\* blocks after the urls of the header, and adds nothing for an embed or a
\* video block; before parse_markdown the files are those of the header.
C21_FilesCollected ==
    \A p \in 1..Len(pages) :
        pages[p].files
            = HeaderFiles(raw_notion[p])
              \o (IF Rendered THEN ToDownload(raw_notion[p].blocks) ELSE <<>>)

\* C21 witness: the page has an embed with a url and, below a toggle, an
\* image; after the run the files hold the url of the image and not the url
\* of the embed.
C21_EmbedLeftOut ==
    /\ pc = "done"
    /\ \E j, k \in 1..Len(raw_notion[1].blocks) :
          /\ raw_notion[1].blocks[j].type = "embed"
          /\ raw_notion[1].blocks[j].url = U_a
          /\ raw_notion[1].blocks[k].has_children
          /\ raw_notion[1].blocks[k].children[1].type = "image"
    /\ pages[1].files = <<U_ab>>


-----------------------------------------------------------------------------
(* SpecProperties: a database and one entry of it.  The entry has its title *)
(* property and, in any order, properties with a handler (date, files) and  *)
(* properties without one (formula, relation).                              *)

\* number of properties of the entry besides the title
MaxProps == 3

OtherProperties ==
    {DateProperty([year |-> 2021, tick |-> 0, aware |-> FALSE, off |-> 0]),
     [name |-> "Files", type |-> "files", value |-> <<U_a>>],
     [name |-> "Formula", type |-> "formula", value |-> NoneV],
     [name |-> "Relation", type |-> "relation", value |-> NoneV]}

\* the properties of an entry: the names are the keys of a dict, so no two
\* properties have the same name, and the title is among them
EntryProperties ==
    {props \in SeqsUpTo(OtherProperties \cup {TitleProperty}, MaxProps + 1) :
        /\ \A j, k \in 1..Len(props) : props[j].name = props[k].name => j = k
        /\ TitleProperty \in Range(props)}

InitProperties ==
    /\ \E props \in EntryProperties :
          raw_notion =
              [RawNotion(<<[parent |-> 0, object |-> "database"],
                           [parent |-> 1, object |-> "page"]>>,
                         <<<<"a">>, <<"e">>>>, Constant(2, NoDate),
                         Constant(2, NoneV), Constant(2, NoIcon),
                         Constant(2, <<>>), Constant(2, <<>>))
                 EXCEPT ![2].properties = props]
    /\ config = [build_locally |-> FALSE, download_files |-> FALSE]
    /\ disk = {}
    /\ Start

SpecProperties == InitProperties /\ [][Next]_vars

\* parse_db_entry_properties has returned
PropertiesParsed == pc \in {"sorting_db_entries", "sorting_page_by_year", "done"}

\* the properties of the raw page p that are not its title, in their order
NotTitle(p) ==
    SelectSeq(raw_notion[p].properties, LAMBDA property : property.type # "title")

\* C22: parse_db_entry_properties does not end the build on a property
\* whose type has no handler; after it, for every database entry, the names
\* of properties_md are the names of its properties other than the title,
\* in their order, and a property whose type has no handler has the empty
\* string.
C22_UnhandledEmpty ==
    /\ pc # "aborted"
    /\ PropertiesParsed =>
          \A p \in 1..Len(pages) :
              pages[p].type = "db_entry" =>
                  /\ Len(pages[p].properties_md) = Len(NotTitle(p))
                  /\ \A k \in 1..Len(NotTitle(p)) :
                        /\ pages[p].properties_md[k].name = NotTitle(p)[k].name
                        /\ NotTitle(p)[k].type \notin {"date", "files"}
                              => pages[p].properties_md[k].value = <<>>

\* C22 witness: the entry has a formula before its title and a files
\* property after it; after the run properties_md has the formula first,
\* empty, and then the files.
C22_FormulaFirst ==
    /\ pc = "done"
    /\ Len(raw_notion[2].properties) = 3
    /\ raw_notion[2].properties[1].type = "formula"
    /\ raw_notion[2].properties[2].type = "title"
    /\ Len(pages[2].properties_md) = 2
    /\ pages[2].properties_md[1] = [name |-> "Formula", value |-> <<>>]
    /\ pages[2].properties_md[2].name = "Files"
    /\ pages[2].properties_md[2].value # <<>>


-----------------------------------------------------------------------------
(* SpecPlaceholders: one page whose content has blocks of kinds that are no *)
(* key of block_type_map, at the top, below a toggle, and with blocks below *)
(* them.                                                                    *)

\* number of blocks of the page
MaxContent == 2

UnknownKinds == {"column_list", "pdf"}

Paragraph == [Block("paragraph") EXCEPT !.text = Cell(<<"a">>)]

Parent(block, child) ==
    [block EXCEPT !.has_children = TRUE, !.children = <<child>>]

ContentBlocks ==
    {Paragraph}
    \cup {Block(kind) : kind \in UnknownKinds}
    \cup {Toggle(Block(kind)) : kind \in UnknownKinds}
    \cup {Parent(Block(kind), child) :
             kind \in UnknownKinds, child \in {Paragraph, Block("pdf")}}

InitPlaceholders ==
    /\ \E content \in SeqsUpTo(ContentBlocks, MaxContent) :
          raw_notion = RawNotion(<<[parent |-> 0, object |-> "page"]>>,
                                 <<<<"a">>>>, <<NoDate>>, <<NoneV>>, <<NoIcon>>,
                                 <<content>>, <<<<>>>>)
    /\ config = [build_locally |-> FALSE, download_files |-> FALSE]
    /\ disk = {}
    /\ Start

SpecPlaceholders == InitPlaceholders /\ [][Next]_vars

RECURSIVE OfKind(_, _)
\* the number of blocks of the kind among the blocks and the blocks below
OfKind(blocks, kind) ==
    IF Len(blocks) = 0 THEN 0
    ELSE (IF Head(blocks).type = kind THEN 1 ELSE 0)
         + (IF Head(blocks).has_children
            THEN OfKind(Head(blocks).children, kind) ELSE 0)
         + OfKind(Tail(blocks), kind)

\* the number of places of md where the placeholder of the kind stands
Placeholders(md, kind) ==
    Cardinality({k \in 1..(Len(md) - 2) :
                    SubSeq(md, k, k + 2) = <<"[", kind, " is not supported]">>})

\* C23: after parse_markdown the md_content of a page has the placeholder
\* "[<kind> is not supported]" once for every block of the page whose kind
\* is no key of block_type_map, at the top or nested, with or without
\* blocks below it.
C23_PlaceholderKept ==
    Rendered =>
        \A p \in 1..Len(pages) :
        \A kind \in UnknownKinds :
            Placeholders(pages[p].md_content, kind)
                = OfKind(raw_notion[p].blocks, kind)

\* C23 witness: the page has a column_list with a pdf below it; after the
\* run the md_content has the placeholder of the column_list and, after it,
\* that of the pdf.
C23_NestedPlaceholders ==
    /\ pc = "done"
    /\ raw_notion[1].blocks = <<Parent(Block("column_list"), Block("pdf"))>>
    /\ pages[1].md_content
          = <<"[", "column_list", " is not supported]", NL, NL,
              "\t", "[", "pdf", " is not supported]", NL>>


-----------------------------------------------------------------------------
(* SpecBreaks: one page whose content is paragraphs and code blocks with    *)
(* line ends in their text, and list items.                                 *)

\* number of line ends in a row in the text of a block
MaxBreaks == 4

\* "a", a number of line ends, "b"
Broken(k) == <<"a">> \o [j \in 1..k |-> NL] \o <<"b">>

Code(text) ==
    [Block("code") EXCEPT !.text = Cell(text), !.language = <<"p", " ", "y">>]

BreakBlocks ==
    {[Paragraph EXCEPT !.text = Cell(Broken(k))] : k \in 0..MaxBreaks}
    \cup {Code(Broken(k)) : k \in 0..MaxBreaks}
    \cup {Toggle(Code(Broken(k))) : k \in 1..2}
    \cup {[Block("to_do") EXCEPT !.text = Cell(<<"a">>)]}

InitBreaks ==
    /\ \E content \in SeqsUpTo(BreakBlocks, MaxContent) :
          raw_notion = RawNotion(<<[parent |-> 0, object |-> "page"]>>,
                                 <<<<"a">>>>, <<NoDate>>, <<NoneV>>, <<NoIcon>>,
                                 <<content>>, <<<<>>>>)
    /\ config = [build_locally |-> FALSE, download_files |-> FALSE]
    /\ disk = {}
    /\ Start

SpecBreaks == InitBreaks /\ [][Next]_vars

\* C24: after parse_markdown the md_content of no page has three line ends
\* in a row, however many empty lines in a row the text of a block has.
C24_NoTripleNewline ==
    Rendered =>
        \A p \in 1..Len(pages) : ~Contains(pages[p].md_content, <<NL, NL, NL>>)


-----------------------------------------------------------------------------
(* SpecLists: grouping applied to a markdown string made of whole lines:    *)
(* list items of the three kinds, at the margin or after a tab, plain lines *)
(* and empty lines.                                                         *)

\* number of lines of the markdown string
MaxLines == 4

ListLines ==
    {<<"*", " ">>, <<"\t", "*", " ">>, <<"1", ".", " ">>,
     <<"-", " ", "[", "x", "]">>, <<"a">>, <<>>}

InitLists ==
    /\ Idle
    /\ pc = "grouping"
    /\ md_in \in {join(<<NL>>, ls) : ls \in SeqsUpTo(ListLines, MaxLines)}
    /\ md_out = <<>>
    /\ richtext_list = <<>>
    /\ outcome_sentence = <<>>

SpecLists == InitLists /\ [][NextGrouping]_vars

\* the places of the lines that are not empty
Filled(lines) ==
    SelectSeq([k \in 1..Len(lines) |-> k], LAMBDA k : lines[k] # <<>>)

\* C25: in what grouping returns, the lines that are not empty are those of
\* the input, in their order; two of them that follow each other (with only
\* empty lines between them in the input) are adjacent when both are list
\* items of the same class, and have an empty line between them when their
\* classes differ; so of two adjacent lines of different classes one is
\* empty.
C25_ClassesSeparated ==
    Len(md_out) >= 1 =>
        LET in == splitlines(md_in)
            out == SplitOn(md_out[1], NL)
            at == Filled(out)
        IN  /\ [k \in 1..Len(at) |-> out[at[k]]]
                  = [k \in 1..Len(Filled(in)) |-> in[Filled(in)[k]]]
            /\ \A k \in 1..(Len(at) - 1) :
                  LET a == line_type(out[at[k]])
                      b == line_type(out[at[k + 1]])
                  IN  /\ (a = b /\ a # "") => at[k + 1] = at[k] + 1
                      /\ a # b => at[k + 1] > at[k] + 1
            /\ \A k \in 1..(Len(out) - 1) :
                  line_type(out[k]) # line_type(out[k + 1])
                      => (out[k] = <<>> \/ out[k + 1] = <<>>)

\* C25 witness: two bullets with an empty line between them and then a
\* checkbox; grouping returns the bullets on adjacent lines, then an empty
\* line, then the checkbox.
C25_BulletsJoined ==
    /\ md_in = <<"*", " ", NL, NL, "\t", "*", " ", NL, "-", " ", "[", "x", "]">>
    /\ Len(md_out) >= 1
    /\ md_out[1] = <<NL, "*", " ", NL, "\t", "*", " ", NL, NL,
                     "-", " ", "[", "x", "]">>


-----------------------------------------------------------------------------
(* notion2json.block_parser.  The API has the children of the block as a    *)
(* sequence of result lists; a response is one list and the cursor of the   *)
(* next one, NoneV after the last.  A child is its id and has no children   *)
(* of its own.                                                              *)

\* number of nested blocks the API has
MaxNested == 3
\* number of result lists the API gives them in
MaxLists == 2
\* number of blocks of block["children"] the model keeps: the list has no
\* bound in the code, and the model keeps its first MaxFetched blocks
MaxFetched == 8

Kept(list) == SubSeq(list, 1, IF Len(list) < MaxFetched THEN Len(list)
                              ELSE MaxFetched)

Cursor(k) == <<"cursor", ToString(k)>>

\* notion.blocks.children.list(block["id"]): the first list
List ==
    [results     |-> IF Len(notion) = 0 THEN <<>> ELSE notion[1],
     next_cursor |-> IF Len(notion) > 1 THEN Cursor(2) ELSE NoneV]

\* lines 26-28
block_parser ==
    /\ pc = "block_parser"
    /\ IF parent_block.has_children
       THEN /\ parent_block' = [parent_block EXCEPT !.children = <<>>]
            /\ start_cursor' = NoneV
            /\ pc' = "block_parser_while"
       ELSE /\ pc' = "returned"
            /\ UNCHANGED <<parent_block, start_cursor>>
    /\ UNCHANGED <<raw_notion, config, pages, urls, sorted_id_by_year, disk,
                   i_page, i_file, stack, log, md_in, md_out, richtext_list,
                   outcome_sentence, notion, listed>>

\* one turn of the loop of lines 29-35
block_parser_while ==
    /\ pc = "block_parser_while"
    /\ LET taken == IF start_cursor = NoneV THEN List ELSE listed
       IN  /\ listed' = taken
           /\ start_cursor' = taken.next_cursor
           /\ parent_block' = [parent_block EXCEPT
                                 !.children = Kept(@ \o taken.results)]
           /\ pc' = IF taken.next_cursor = NoneV THEN "block_parser_children"
                    ELSE pc
    /\ UNCHANGED <<raw_notion, config, pages, urls, sorted_id_by_year, disk,
                   i_page, i_file, stack, log, md_in, md_out, richtext_list,
                   outcome_sentence, notion>>

\* lines 37-39: block_parser of every child, which has no children, and the
\* return
block_parser_children ==
    /\ pc = "block_parser_children"
    /\ pc' = "returned"
    /\ UNCHANGED <<raw_notion, config, pages, urls, sorted_id_by_year, disk,
                   i_page, i_file, stack, log, md_in, md_out, richtext_list,
                   outcome_sentence, parser>>

\* the sequences of length 1..n of distinct elements of S
Arrangements(S, n) ==
    {s \in SeqsUpTo(S, n) :
        Len(s) > 0 /\ \A j, k \in 1..Len(s) : s[j] = s[k] => j = k}

InitParser ==
    /\ raw_notion = <<>>
    /\ config = [build_locally |-> FALSE, download_files |-> FALSE]
    /\ pages = <<>>
    /\ urls = <<>>
    /\ sorted_id_by_year = <<>>
    /\ disk = {}
    /\ i_page = 1
    /\ i_file = 1
    /\ stack = <<>>
    /\ log = <<>>
    /\ md_in = <<>>
    /\ md_out = <<>>
    /\ richtext_list = <<>>
    /\ outcome_sentence = <<>>
    /\ pc = "block_parser"
    /\ parent_block \in [has_children : BOOLEAN, children : {NoneV}]
    /\ listed = NoneV
    /\ start_cursor = NoneV
    /\ IF parent_block.has_children
       THEN \E ids \in Arrangements(1..MaxNested, MaxNested) :
            \E lists \in SeqsUpTo(Arrangements(1..MaxNested, MaxNested), MaxLists) :
               /\ Concat(lists) = ids
               /\ notion = lists
       ELSE notion = <<>>

NextParser ==
    \/ block_parser
    \/ block_parser_while
    \/ block_parser_children

SpecParser == InitParser /\ [][NextParser]_vars /\ WF_vars(NextParser)

\* C26: block_parser returns for every block, also when the API gives the
\* children in more than one list, and on return block["children"] has
\* every nested block once, in the order of the API.
C26_ParserReturns ==
    <>(/\ pc = "returned"
       /\ parent_block.has_children
             => parent_block.children = Concat(notion))

====
